---------------------------- MODULE Spec2Model ----------------------------
(***************************************************************************)
(* A model of pbuildrs: the edition patcher (src/src/patcher.rs), the      *)
(* tree patcher patch_protos (src/src/lib.rs), the module tree of         *)
(* src/src/modgen.rs and its modularize.  Each part has its own variables  *)
(* and its own specification; the variables of the other parts stay        *)
(* parked.                                                                 *)
(*                                                                         *)
(* Bytes are one-character strings, byte strings are sequences of them.    *)
(* Offsets are 0-based as in the Rust code; the slice line[a..b] is        *)
(* SubSeq(line, a + 1, b).                                                 *)
(***************************************************************************)
EXTENDS Integers, Sequences, FiniteSets, TLC

VARIABLES
    src,        \* the whole content of the input stream (never changes)
    cursor,     \* how many bytes of src the BufRead has handed out
    line,       \* patch_edition's `line` buffer
    state,      \* patch_edition's `state`
    outcome,    \* patch_edition's `outcome`
    dst,        \* the bytes written to the output so far
    pc,         \* "read": at the loop head; "write": after the fold; "done"
    result,     \* "Running", "Ok", "InvalidState", "Read" or "Write"
    io          \* "ok" until a call on src or dst fails: then "read" or "write"

\* the variables of patch_edition
patcherVars == <<src, cursor, line, state, outcome, dst, pc, result, io>>

VARIABLES
    env,        \* patch_protos: the source tree, what the file systems refuse,
                \* and the destination as the call finds it (never changes)
    dstDirs,    \* the directories of the destination
    dstFiles,   \* the files of the destination, each with its content
    walk,       \* walkdir's stack of directories being listed
    files,      \* the Vec `files`
    task,       \* the items of the parallel iterator, each with its position
    saved,      \* the first Err an item came back with
    finished,   \* the items that came back Ok, in the order they did
    ppc,        \* "walk", "par" or "done"
    presult     \* what patch_protos returned

\* the variables of patch_protos
protoVars == <<env, dstDirs, dstFiles, walk, files, task, saved, finished, ppc, presult>>

VARIABLES
    root,       \* Tree: the root node
    pushes,     \* the paths Tree::push was called with, in order
    mres        \* what the last Tree::push returned: "Ok" or "FileName"

\* the variables of the module tree
modVars == <<root, pushes, mres>>

VARIABLES
    cenv,       \* modularize: the source files, the faults, the destination before
    ctree,      \* the Tree modularize folded the rust files into
    cstack,     \* Node::compile: a frame for each call that has not returned
    cdirs,      \* the directories of the destination
    cfiles,     \* the files of the destination: path -> what was written
    cres        \* what modularize returned, or "NotCalled", or "Running"

\* the variables of modularize
compileVars == <<cenv, ctree, cstack, cdirs, cfiles, cres>>

\* the variables of the parts other than patch_edition
others == <<protoVars, modVars, compileVars>>

vars == <<patcherVars, others>>

\* the variables of the parts other than patch_protos
besidesProtos == <<patcherVars, modVars, compileVars>>

\* the variables of the parts other than the module tree
besidesTree == <<patcherVars, protoVars, compileVars>>

\* the variables of the parts other than modularize
besidesCompile == <<patcherVars, protoVars, modVars>>

---------------------------------------------------------------------------
(* Bounds of the input families.                                           *)

\* the longest input of the general family, in chunks
MaxChunks == 4
\* the most filler items (whitespace, comments) placed around one declaration
MaxPad == 2

---------------------------------------------------------------------------
(* Byte strings.                                                           *)

RECURSIVE Concat(_)
Concat(ss) == IF ss = <<>> THEN <<>> ELSE Head(ss) \o Concat(Tail(ss))

SeqsOfLen(S, n) == [1..n -> S]

SeqsUpTo(S, n) == UNION {SeqsOfLen(S, k) : k \in 0..n}

\* line[a..b]
Slice(s, a, b) == SubSeq(s, a + 1, b)

\* line[a..]
SliceFrom(s, a) == SubSeq(s, a + 1, Len(s))

\* u8::is_ascii_whitespace: space, tab, line feed, form feed, carriage return
IsAsciiWhitespace(ch) == ch \in {" ", "\t", "\n", "\f", "\r"}

\* the keyword matched by State::Edition
Keyword == <<"e", "d", "i", "t", "i", "o", "n">>

\* a replacement that is an edition declaration itself
SyntaxDeclEdition == <<"e", "d", "i", "t", "i", "o", "n", "=", "\"", "3", "\"">>

\* r#"syntax = "proto3""#
SyntaxDecl ==
    <<"s", "y", "n", "t", "a", "x", " ", "=", " ", "\"", "p", "r", "o", "t", "o", "3", "\"">>

---------------------------------------------------------------------------
(* enum CommentContext and enum State.  A value is a record; the fields a  *)
(* variant does not have are 0 or "-".                                      *)

Ctx(tag, pos) == [tag |-> tag, pos |-> pos]

CtxNone == Ctx("None", 0)

CtxInvalid == Ctx("InvalidState", 0)

NoCtx == Ctx("-", 0)

\* a: the first usize of the variant, b: its second usize, opt: the Option of Complete
St(tag, a, b, ctx) == [tag |-> tag, a |-> a, b |-> b, ctx |-> ctx, opt |-> "-"]

StNone == St("None", 0, 0, NoCtx)

\* Complete(None)
StTerminal == [St("Complete", 0, 0, NoCtx) EXCEPT !.opt = "None"]

\* Complete(Some((to, from)))
StMatched(to, from) == [St("Complete", to, from, NoCtx) EXCEPT !.opt = "Some"]

\* the Err(Error::InvalidState) of next_token
StInvalid == St("InvalidState", 0, 0, NoCtx)

StComment(tag, startAt, ctx) ==
    IF ctx = CtxInvalid THEN StInvalid ELSE St(tag, startAt, 0, ctx)

CommentTags ==
    {"CommentPending", "CommentSingleLine", "CommentMultiLine", "CommentMultiLineEndPending"}

\* impl From<CommentContext> for State
FromCtx(ctx) ==
    CASE ctx.tag = "None" -> StNone
      [] ctx.tag = "EditionWhitespacePost" -> St("EditionWhitespacePost", ctx.pos, 0, NoCtx)
      [] ctx.tag = "EditionEqual" -> St("EditionEqual", ctx.pos, 0, NoCtx)
      [] ctx.tag = "EditionEqualWhitespacePost" ->
            St("EditionEqualWhitespacePost", ctx.pos, 0, NoCtx)

\* TryFromState without the arm of State::Edition(pos, 6)
TryFromStateNoKeyword(st) ==
    CASE st.tag = "None" -> CtxNone
      [] st.tag = "EditionWhitespacePost" -> Ctx("EditionWhitespacePost", st.a)
      [] st.tag = "EditionEqual" -> Ctx("EditionEqual", st.a)
      [] st.tag = "EditionEqualWhitespacePost" -> Ctx("EditionEqualWhitespacePost", st.a)
      [] OTHER -> CtxInvalid

\* impl TryFrom<State> for CommentContext
TryFromState(st) ==
    CASE st.tag = "None" -> CtxNone
      [] st.tag = "EditionWhitespacePost" -> Ctx("EditionWhitespacePost", st.a)
      [] st.tag = "EditionEqual" -> Ctx("EditionEqual", st.a)
      [] st.tag = "EditionEqualWhitespacePost" -> Ctx("EditionEqualWhitespacePost", st.a)
      [] st.tag = "Edition" /\ st.b = 6 -> Ctx("EditionWhitespacePost", st.a)
      [] OTHER -> CtxInvalid

---------------------------------------------------------------------------
(* State::next_token, one operator per arm of the match.                   *)

OnComplete(st, ch, pos) == st

OnNone(st, ch, pos) ==
    CASE ch = "e" -> St("Edition", pos, 0, NoCtx)
      [] ch = "/" -> StComment("CommentPending", pos, TryFromState(st))
      [] IsAsciiWhitespace(ch) -> StNone
      [] OTHER -> StTerminal

OnCommentPending(st, ch, pos) ==
    CASE ch = "/" -> St("CommentSingleLine", st.a, 0, st.ctx)
      [] ch = "*" -> St("CommentMultiLine", st.a, 0, st.ctx)
      [] OTHER -> StTerminal

OnCommentSingleLine(st, ch, pos) ==
    IF ch = "\n" THEN FromCtx(st.ctx) ELSE St("CommentSingleLine", st.a, 0, st.ctx)

OnCommentMultiLine(st, ch, pos) ==
    IF ch = "*"
    THEN St("CommentMultiLineEndPending", st.a, 0, st.ctx)
    ELSE St("CommentMultiLine", st.a, 0, st.ctx)

OnCommentMultiLineEndPending(st, ch, pos) ==
    IF ch = "/" THEN FromCtx(st.ctx) ELSE St("CommentMultiLine", st.a, 0, st.ctx)

\* OnEdition taking any byte after the keyword for whitespace
OnEditionLoose(st, ch, pos) ==
    CASE \/ st.b = 0 /\ ch = "d"
         \/ st.b = 1 /\ ch = "i"
         \/ st.b = 2 /\ ch = "t"
         \/ st.b = 3 /\ ch = "i"
         \/ st.b = 4 /\ ch = "o"
         \/ st.b = 5 /\ ch = "n" -> St("Edition", st.a, st.b + 1, NoCtx)
      [] st.b = 6 /\ ch = "=" -> St("EditionEqual", st.a, 0, NoCtx)
      [] st.b = 6 /\ ch = "/" -> StComment("CommentPending", st.a, TryFromState(st))
      [] st.b = 6 -> St("EditionWhitespacePost", st.a, 0, NoCtx)
      [] OTHER -> StTerminal

OnEdition(st, ch, pos) ==
    CASE \/ st.b = 0 /\ ch = "d"
         \/ st.b = 1 /\ ch = "i"
         \/ st.b = 2 /\ ch = "t"
         \/ st.b = 3 /\ ch = "i"
         \/ st.b = 4 /\ ch = "o"
         \/ st.b = 5 /\ ch = "n" -> St("Edition", st.a, st.b + 1, NoCtx)
      [] st.b = 6 /\ ch = "=" -> St("EditionEqual", st.a, 0, NoCtx)
      [] st.b = 6 /\ ch = "/" -> StComment("CommentPending", st.a, TryFromState(st))
      [] st.b = 6 /\ IsAsciiWhitespace(ch) -> St("EditionWhitespacePost", st.a, 0, NoCtx)
      [] OTHER -> StTerminal

OnEditionWhitespacePost(st, ch, pos) ==
    CASE ch = "=" -> St("EditionEqual", st.a, 0, NoCtx)
      [] ch = "/" -> StComment("CommentPending", st.a, TryFromState(st))
      [] IsAsciiWhitespace(ch) -> St("EditionWhitespacePost", st.a, 0, NoCtx)
      [] OTHER -> StTerminal

\* the arm of EditionEqual and EditionEqualWhitespacePost
OnEditionEqual(st, ch, pos) ==
    CASE ch = "\"" -> St("EditionOpenQuote", st.a, 0, NoCtx)
      [] ch = "/" -> StComment("CommentPending", st.a, TryFromState(st))
      [] IsAsciiWhitespace(ch) -> St("EditionEqualWhitespacePost", st.a, 0, NoCtx)
      [] OTHER -> StTerminal

\* OnEditionValue taking a backslash for an ordinary byte
OnEditionValueNoEscape(st, ch, pos) ==
    CASE ch = "\"" -> St("EditionCloseQuote", st.a, 0, NoCtx)
      [] OTHER -> St("EditionValue", st.a, 0, NoCtx)

\* OnEditionValue taking a `/` for the start of a comment
OnEditionValueComment(st, ch, pos) ==
    CASE ch = "\"" -> St("EditionCloseQuote", st.a, 0, NoCtx)
      [] ch = "\\" -> St("EditionValueEscape", st.a, 0, NoCtx)
      [] ch = "/" -> StComment("CommentPending", st.a, TryFromState(st))
      [] OTHER -> St("EditionValue", st.a, 0, NoCtx)

\* the arm of EditionOpenQuote and EditionValue
OnEditionValue(st, ch, pos) ==
    CASE ch = "\"" -> St("EditionCloseQuote", st.a, 0, NoCtx)
      [] ch = "\\" -> St("EditionValueEscape", st.a, 0, NoCtx)
      [] OTHER -> St("EditionValue", st.a, 0, NoCtx)

OnEditionValueEscape(st, ch, pos) == St("EditionValue", st.a, 0, NoCtx)

\* OnEditionCloseQuote with the end of the span one byte late
OnEditionCloseQuoteLate(st, ch, pos) == StMatched(st.a, pos + 1)

OnEditionCloseQuote(st, ch, pos) == StMatched(st.a, pos)

NextToken(st, ch, pos) ==
    CASE st.tag = "Complete" -> OnComplete(st, ch, pos)
      [] st.tag = "None" -> OnNone(st, ch, pos)
      [] st.tag = "CommentPending" -> OnCommentPending(st, ch, pos)
      [] st.tag = "CommentSingleLine" -> OnCommentSingleLine(st, ch, pos)
      [] st.tag = "CommentMultiLine" -> OnCommentMultiLine(st, ch, pos)
      [] st.tag = "CommentMultiLineEndPending" -> OnCommentMultiLineEndPending(st, ch, pos)
      [] st.tag = "Edition" -> OnEdition(st, ch, pos)
      [] st.tag = "EditionWhitespacePost" -> OnEditionWhitespacePost(st, ch, pos)
      [] st.tag \in {"EditionEqual", "EditionEqualWhitespacePost"} -> OnEditionEqual(st, ch, pos)
      [] st.tag \in {"EditionOpenQuote", "EditionValue"} -> OnEditionValue(st, ch, pos)
      [] st.tag = "EditionValueEscape" -> OnEditionValueEscape(st, ch, pos)
      [] st.tag = "EditionCloseQuote" -> OnEditionCloseQuote(st, ch, pos)

\* get_bounds with None for the four comment states
GetBoundsNoComment(st) ==
    CASE st.tag = "Complete" /\ st.opt = "Some" -> [kind |-> "ToFrom", to |-> st.a, from |-> st.b]
      [] st.tag \in {"None", "Complete"} \cup CommentTags -> [kind |-> "NoBounds", to |-> 0, from |-> 0]
      [] OTHER -> [kind |-> "To", to |-> st.a, from |-> 0]

\* State::get_bounds: "NoBounds" is None, "To" is Some((to, None)),
\* "ToFrom" is Some((to, Some(from)))
GetBounds(st) ==
    CASE st.tag = "None" -> [kind |-> "NoBounds", to |-> 0, from |-> 0]
      [] st.tag = "Complete" /\ st.opt = "None" -> [kind |-> "NoBounds", to |-> 0, from |-> 0]
      [] st.tag = "Complete" /\ st.opt = "Some" -> [kind |-> "ToFrom", to |-> st.a, from |-> st.b]
      [] OTHER -> [kind |-> "To", to |-> st.a, from |-> 0]

---------------------------------------------------------------------------
(* patch_edition.                                                          *)

\* the number of bytes read_until(b'\n', ..) takes from the unread bytes `rest`
RECURSIVE ReadUntilNewline(_)
ReadUntilNewline(rest) ==
    IF rest = <<>> THEN 0
    ELSE IF Head(rest) = "\n" THEN 1
    ELSE 1 + ReadUntilNewline(Tail(rest))

\* line.iter().enumerate().try_fold(state, ..) from position pos on; the `?`
\* of next_token ends the fold at the first Err
RECURSIVE TryFold(_, _, _)
TryFold(st, buf, pos) ==
    IF pos >= Len(buf) \/ st = StInvalid THEN st
    ELSE TryFold(NextToken(st, buf[pos + 1], pos), buf, pos + 1)

\* ResetState going back to idle after a replacement
ResetStateForgets(st) ==
    CASE st.tag = "Complete" /\ st.opt = "None" -> st
      [] OTHER -> StNone

\* the end of an iteration with the lexer's state kept as it is
ResetStateCarries(st) ==
    CASE st.tag = "Complete" /\ st.opt = "Some" -> StTerminal
      [] OTHER -> st

\* the `state = match state { .. }` that ends an iteration
ResetState(st) ==
    CASE st.tag = "Complete" /\ st.opt = "Some" -> StTerminal
      [] st.tag = "Complete" /\ st.opt = "None" -> st
      [] OTHER -> StNone

Unread == SliceFrom(src, cursor)

\* read_until returned n > 0, then the fold
ReadAndScan ==
    /\ pc = "read"
    /\ LET n == ReadUntilNewline(Unread)
           buf == line \o Slice(src, cursor, cursor + n)
           folded == TryFold(state, buf, 0)
       IN  /\ n > 0
           /\ cursor' = cursor + n
           /\ line' = buf
           /\ state' = folded
           /\ IF folded = StInvalid
              THEN pc' = "done" /\ result' = "InvalidState"
              ELSE pc' = "write" /\ result' = result
    /\ UNCHANGED <<src, outcome, dst, io, others>>

\* Some((to, Some(from)))
WriteReplaced ==
    /\ pc = "write"
    /\ GetBounds(state).kind = "ToFrom"
    /\ LET b == GetBounds(state)
       IN  dst' = dst \o Slice(line, 0, b.to) \o SyntaxDecl \o SliceFrom(line, b.from)
    /\ line' = <<>>
    /\ outcome' = "Replaced"
    /\ state' = ResetState(state)
    /\ pc' = "read"
    /\ UNCHANGED <<src, cursor, result, io, others>>

\* Some((to, None))
WriteRetained ==
    /\ pc = "write"
    /\ GetBounds(state).kind = "To"
    /\ LET b == GetBounds(state)
       IN  /\ dst' = dst \o Slice(line, 0, b.to)
           /\ line' = SliceFrom(line, b.to)
    /\ state' = ResetState(state)
    /\ pc' = "read"
    /\ UNCHANGED <<src, cursor, outcome, result, io, others>>

\* None
WriteAll ==
    /\ pc = "write"
    /\ GetBounds(state).kind = "NoBounds"
    /\ dst' = dst \o line
    /\ line' = <<>>
    /\ state' = ResetState(state)
    /\ pc' = "read"
    /\ UNCHANGED <<src, cursor, outcome, result, io, others>>

\* read_until returned 0: Ok(outcome)
ReturnOutcome ==
    /\ pc = "read"
    /\ ReadUntilNewline(Unread) = 0
    /\ pc' = "done"
    /\ result' = "Ok"
    /\ UNCHANGED <<src, cursor, line, state, outcome, dst, io, others>>

\* `.map_err(Error::Read)?` and `.map_err(Error::Write)?` with an Err: the call
\* returns the error of that kind
MapErrDropped(kind) == [pc |-> "read", result |-> "Running"]

MapErr(kind) == [pc |-> "done", result |-> kind]

\* the bytes the three arms of `match state.get_bounds()` hand to write_all
Written ==
    LET b == GetBounds(state)
    IN  CASE b.kind = "ToFrom" ->
                Slice(line, 0, b.to) \o SyntaxDecl \o SliceFrom(line, b.from)
          [] b.kind = "To" -> Slice(line, 0, b.to)
          [] OTHER -> line

\* read_until returns Err; the bytes it took before the error are in `line`
\* (all of them only when the newline was not among them)
ReadFails ==
    /\ pc = "read"
    /\ io = "ok"
    /\ LET n == ReadUntilNewline(Unread)
       IN  \E k \in 0..n :
              /\ IF k < n THEN TRUE ELSE IF n = 0 THEN TRUE ELSE src[cursor + n] # "\n"
              /\ cursor' = cursor + k
              /\ line' = line \o Slice(src, cursor, cursor + k)
    /\ io' = "read"
    /\ pc' = MapErr("Read").pc
    /\ result' = MapErr("Read").result
    /\ UNCHANGED <<src, state, outcome, dst, others>>

\* one of the write_all calls returns Err, having written k bytes of what the
\* arm writes; write_all of an empty slice cannot fail
WriteFails ==
    /\ pc = "write"
    /\ io = "ok"
    /\ \E k \in 0..(Len(Written) - 1) : dst' = dst \o Slice(Written, 0, k)
    /\ io' = "write"
    /\ pc' = MapErr("Write").pc
    /\ result' = MapErr("Write").result
    /\ UNCHANGED <<src, cursor, line, state, outcome, others>>

---------------------------------------------------------------------------
(* The inputs.  Four families: every short sequence of lexical chunks; a   *)
(* declaration with filler before it and inside it; a file with no         *)
(* declaration behind some filler; a damaged keyword.                      *)

\* edition="1";
EditionText == Keyword \o <<"=", "\"", "1", "\"", ";">>

\* syntax = "proto3";
SyntaxLine == SyntaxDecl \o <<";">>

GenChunks ==
    {Keyword, <<"/">>, <<"*">>, <<"\n">>, <<" ">>, <<"=">>, <<"\"">>, <<"\\">>, <<"x">>}

GenInputs == {Concat(cs) : cs \in SeqsUpTo(GenChunks, MaxChunks)}

\* whitespace and complete comments that may stand before the first token
LeadItems ==
    { <<" ">>, <<"\n">>,
      <<"/", "*", "c", "*", "/">>,
      <<"/", "*", "*", "c", "*", "*", "/">>,
      <<"/", "/", "c", "\n">>,
      <<"/", "*", "\n">> \o EditionText \o <<"\n", "*", "/">> }

\* whitespace and complete comments that may stand inside the declaration
GapItems ==
    { <<" ">>, <<"\n">>,
      <<"/", "*", "c", "*", "/">>,
      <<"/", "*", "*", "c", "*", "*", "/">>,
      <<"/", "/", "c", "\n">> }

QuotedValues ==
    { <<"\"", "\"">>,
      <<"\"", "\\", "\"", "\"">>,
      <<"\"", "\\", "\\", "\"">>,
      <<"\"", "/", "*", "\"">>,
      <<"\"", "/", "/", ";", "=", "\n", "\"">> }

Trails ==
    { <<>>,
      <<" ", ";", "\n">>,
      <<"\n", "/", "/", "c", "\n", ";", "\n">>,
      <<";", " ">> \o EditionText \o <<"\n">>,
      <<";", "\n">> \o EditionText \o <<"\n">> }

Fillers(items, n) == {Concat(cs) : cs \in SeqsOfLen(items, n)}

DeclInputs ==
    UNION { UNION { UNION {
        { l \o Keyword \o g1 \o <<"=">> \o g2 \o v \o t :
            l \in Fillers(LeadItems, a), g1 \in Fillers(GapItems, b),
            g2 \in Fillers(GapItems, c), v \in QuotedValues, t \in Trails }
        : c \in 0..(MaxPad - a - b) } : b \in 0..(MaxPad - a) } : a \in 0..MaxPad }

PlainBodies ==
    { <<>>,
      SyntaxLine,
      SyntaxLine \o <<"\n">> \o EditionText \o <<"\n">>,
      <<"/", "/">> \o EditionText,
      <<"/", "*">> \o EditionText \o <<"*", "/">>,
      <<"a", "=", "\"">> \o Keyword \o <<"\"", ";", "\n">>,
      <<"/">>,
      <<"/", " ">> \o EditionText \o <<"\n">>,
      <<"m", "{">> \o EditionText \o <<"}", "\n">> }

PlainInputs ==
    UNION { {l \o b : l \in Fillers(LeadItems, a), b \in PlainBodies} : a \in 0..MaxPad }

KeywordBytes ==
    {"e", "d", "i", "t", "o", "n", "E", "s", " ", "\t", "\n", "=", "/", "\"", "x"}

KeywordInputs ==
    { l \o SubSeq(Keyword, 1, k) \o <<ch>> \o t :
        l \in {<<>>, <<" ">>, <<"\n">>}, k \in 0..Len(Keyword), ch \in KeywordBytes,
        t \in {<<>>, <<"=", "\"", "1", "\"", ";">>} }

Inputs == GenInputs \cup DeclInputs \cup PlainInputs \cup KeywordInputs

---------------------------------------------------------------------------

\* the state of the parts that a specification leaves alone
PatcherParked ==
    /\ src = <<>>
    /\ cursor = 0
    /\ line = <<>>
    /\ state = StNone
    /\ outcome = "Untouched"
    /\ dst = <<>>
    /\ pc = "done"
    /\ result = "Running"
    /\ io = "ok"

ProtosParked ==
    /\ env = [dirs |-> {}, files |-> {}, faults |-> {}, dirs0 |-> {}, files0 |-> <<>>]
    /\ dstDirs = {}
    /\ dstFiles = <<>>
    /\ walk = <<>>
    /\ files = <<>>
    /\ task = <<>>
    /\ saved = [kind |-> "None"]
    /\ finished = <<>>
    /\ ppc = "done"
    /\ presult = [kind |-> "Running"]

TreeParked ==
    /\ root = [path |-> [opt |-> "None"], children |-> <<>>]
    /\ pushes = <<>>
    /\ mres = "None"

CompileParked ==
    /\ cenv = [files |-> {}, faults |-> {}, dirs0 |-> {}, files0 |-> <<>>]
    /\ ctree = [path |-> [opt |-> "None"], children |-> <<>>]
    /\ cstack = <<>>
    /\ cdirs = {}
    /\ cfiles = <<>>
    /\ cres = [kind |-> "Running"]

OthersParked == ProtosParked /\ TreeParked /\ CompileParked

Init ==
    /\ src \in Inputs
    /\ cursor = 0
    /\ line = <<>>
    /\ state = StNone
    /\ outcome = "Untouched"
    /\ dst = <<>>
    /\ pc = "read"
    /\ result = "Running"
    /\ io = "ok"
    /\ OthersParked

Next ==
    \/ ReadAndScan
    \/ WriteReplaced
    \/ WriteRetained
    \/ WriteAll
    \/ ReturnOutcome

Spec == Init /\ [][Next]_vars

\* patch_edition over a source and a destination that may fail
IOInputs == KeywordInputs \cup PlainInputs

InitIO ==
    /\ src \in IOInputs
    /\ cursor = 0
    /\ line = <<>>
    /\ state = StNone
    /\ outcome = "Untouched"
    /\ dst = <<>>
    /\ pc = "read"
    /\ result = "Running"
    /\ io = "ok"
    /\ OthersParked

NextIO ==
    \/ ReadAndScan
    \/ WriteReplaced
    \/ WriteRetained
    \/ WriteAll
    \/ ReturnOutcome
    \/ ReadFails
    \/ WriteFails

SpecIO == InitIO /\ [][NextIO]_vars

---------------------------------------------------------------------------
(* Paths.  A file name is the sequence of the pieces its dots separate     *)
(* ("a.proto" is <<"a", "proto">>, ".proto" is <<"", "proto">>); a path is *)
(* a sequence of names.                                                    *)

Some(x) == [opt |-> "Some", val |-> x]
NoneOpt == [opt |-> "None"]

\* Path::extension of a path that ends in the name `name`: nothing without a
\* dot, nothing when the only dot is the first byte, nothing for `..`, else
\* what follows the last dot
Extension(name) ==
    IF Len(name) = 1 THEN NoneOpt
    ELSE IF name = <<"", "", "">> THEN NoneOpt
    ELSE IF Len(name) = 2 /\ name[1] = "" THEN NoneOpt
    ELSE Some(name[Len(name)])

Front(s) == SubSeq(s, 1, Len(s) - 1)
Last(s) == s[Len(s)]

\* Path::set_extension(""), Path::with_extension(""): the name cut back to its
\* file_stem
WithoutExtension(name) ==
    IF Extension(name).opt = "None" THEN name ELSE Front(name)

SrcDir == <<"src">>
DstDir == <<"dst">>

\* path.strip_prefix(src_dir)
StripPrefix(path) ==
    IF Len(path) >= 1 /\ path[1] = SrcDir THEN Some(Tail(path)) ELSE NoneOpt

\* dst_dir.join(relative)
Join(dir, relative) == <<dir>> \o relative

\* the output put straight into the destination directory
DstPathFlat(path) == <<DstDir, Last(path)>>

\* let output = dst_dir.join(path), path being proto.strip_prefix(src_dir)
DstPath(path) == Join(DstDir, StripPrefix(path).val)

\* the filter's test with any extension passing
IsProtoAny(path) == Extension(Last(path)).opt = "Some"

\* file.extension().is_some_and(|ext| ext == "proto")
IsProto(path) ==
    LET ext == Extension(Last(path))
    IN  ext.opt = "Some" /\ ext.val = "proto"

---------------------------------------------------------------------------
(* The trees patch_protos is run on.                                       *)

MaxFiles == 3
MaxFaults == 2

NameD == <<"d">>
NameE == <<"e">>

SourceFiles ==
    { <<SrcDir, <<"a", "proto">> >>,
      <<SrcDir, <<"README", "md">> >>,
      <<SrcDir, NameD, <<"b", "proto">> >>,
      <<SrcDir, NameD, <<"", "proto">> >>,
      <<SrcDir, NameD, NameE, <<"a", "proto">> >> }

SourceDirs == { <<SrcDir>>, <<SrcDir, NameD>>, <<SrcDir, NameD, NameE>> }

Prefixes(p) == {SubSeq(p, 1, n) : n \in 1..(Len(p) - 1)}

\* a tree: some of the files, the directories they lie in, and perhaps
\* directories without files
SourceTrees ==
    UNION { { [dirs |-> ds, files |-> fs] :
                ds \in {x \in SUBSET SourceDirs :
                          /\ <<SrcDir>> \in x
                          /\ \A p \in x \cup fs : Prefixes(p) \subseteq x} } :
            fs \in {x \in SUBSET SourceFiles : Cardinality(x) <= MaxFiles} }

\* what the file systems may refuse: to list a source directory, to open a
\* source file, to read or write while an item is patched, to add an entry to
\* the destination directory
FaultsOf(t) ==
    {[kind |-> "unreadable", at |-> d] : d \in t.dirs}
    \cup {[kind |-> k, at |-> f] : k \in {"noopen", "badio"},
                                     f \in {x \in t.files : IsProto(x)}}
    \cup {[kind |-> "readonly", at |-> <<DstDir>>]}

\* the destination before the call: missing, empty, or holding a directory or
\* a file already
Destinations ==
    { [dirs0 |-> {}, files0 |-> <<>>],
      [dirs0 |-> {<<DstDir>>}, files0 |-> <<>>],
      [dirs0 |-> {<<DstDir>>, <<DstDir, NameD>>}, files0 |-> <<>>],
      [dirs0 |-> {<<DstDir>>}, files0 |-> (<<DstDir, <<"a", "proto">> >> :> "old")],
      [dirs0 |-> {<<DstDir>>}, files0 |-> (<<DstDir, NameD>> :> "old")],
      [dirs0 |-> {<<DstDir>>, <<DstDir, NameD>>},
       files0 |-> (<<DstDir, NameD, <<"b", "proto">> >> :> "old")] }

Environments ==
    UNION { { [dirs |-> t.dirs, files |-> t.files, faults |-> f,
               dirs0 |-> d.dirs0, files0 |-> d.files0] :
                f \in {x \in SUBSET FaultsOf(t) : Cardinality(x) <= MaxFaults},
                d \in Destinations } :
            t \in SourceTrees }

Refused(kind, at) == [kind |-> kind, at |-> at] \in env.faults

Writable(dir) == ~Refused("readonly", dir)

\* fs::create_dir_all doing nothing
CreateDirAllNothing(dirs, path) == [ok |-> TRUE, dirs |-> dirs]

\* fs::create_dir_all(path) where the directories `dirs` exist: the missing
\* directories are made from the top down; one cannot be made where a file is
\* or in a directory that takes no entry
RECURSIVE CreateDirAll(_, _)
CreateDirAll(dirs, path) ==
    IF path \in dirs THEN [ok |-> TRUE, dirs |-> dirs]
    ELSE LET up == IF Len(path) > 1 THEN CreateDirAll(dirs, Front(path))
                   ELSE [ok |-> TRUE, dirs |-> dirs]
         IN  IF ~up.ok THEN up
             ELSE IF path \in DOMAIN dstFiles \/ (Len(path) > 1 /\ ~Writable(Front(path)))
                  THEN [ok |-> FALSE, dirs |-> up.dirs]
                  ELSE [ok |-> TRUE, dirs |-> up.dirs \cup {path}]

\* the open with create(true) in place of create_new(true)
CreateTruncate(fls, path) ==
    IF path \in dstDirs \/ Front(path) \notin dstDirs
       \/ (path \notin DOMAIN fls /\ ~Writable(Front(path)))
    THEN [ok |-> FALSE, files |-> fls]
    ELSE [ok |-> TRUE, files |-> (path :> "") @@ fls]

\* OpenOptions::new().write(true).truncate(true).create_new(true).open(path)
\* where the files `fls` exist: the new file is empty
CreateNew(fls, path) ==
    IF path \in DOMAIN fls \/ path \in dstDirs \/ Front(path) \notin dstDirs
       \/ ~Writable(Front(path))
    THEN [ok |-> FALSE, files |-> fls]
    ELSE [ok |-> TRUE, files |-> (path :> "") @@ fls]

\* ErrorOf with OpenTempFile taken for OpenSourceFile
ErrorOfMixed(step) ==
    CASE step = "walk" -> "WalkDir"
      [] step = "strip" -> "PathResolve"
      [] step = "mkdir" -> "CreatePatchedSubdir"
      [] step = "open" -> "OpenSourceFile"
      [] step = "create" -> "OpenSourceFile"
      [] step = "patch" -> "PatchEdition"

\* the variant of Error each step's failure is mapped to
ErrorOf(step) ==
    CASE step = "walk" -> "WalkDir"
      [] step = "strip" -> "PathResolve"
      [] step = "mkdir" -> "CreatePatchedSubdir"
      [] step = "open" -> "OpenSourceFile"
      [] step = "create" -> "OpenTempFile"
      [] step = "patch" -> "PatchEdition"

Err(step, at) == [kind |-> "Err", err |-> ErrorOf(step), at |-> at]

---------------------------------------------------------------------------
(* The walk (lib.rs 28-52).  walkdir hands out a directory before what is  *)
(* in it, the entries of one directory in the order the file system lists  *)
(* them; a directory it cannot list comes back as an Err after the         *)
(* directory itself.                                                       *)

Children(d) == {p \in env.dirs \cup env.files : Len(p) = Len(d) + 1 /\ Front(p) = d}

Frame(d) ==
    IF Refused("unreadable", d) THEN [rest |-> {}, err |-> TRUE]
    ELSE [rest |-> Children(d), err |-> FALSE]

\* the stack once the directories listed to their end are popped
RECURSIVE Settle(_)
Settle(w) ==
    IF w = <<>> THEN w
    ELSE IF Last(w).err \/ Last(w).rest # {} THEN w
    ELSE Settle(Front(w))

\* one turn of the try_fold closure with Ok(entry)
WalkEntry ==
    /\ ppc = "walk"
    /\ LET w == Settle(walk)
       IN  /\ w # <<>>
           /\ ~Last(w).err
           /\ \E path \in Last(w).rest :
                LET popped == [w EXCEPT ![Len(w)].rest = @ \ {path}]
                    rel == StripPrefix(path)
                    made == CreateDirAll(dstDirs, Join(DstDir, rel.val))
                IN  IF path \notin env.dirs
                    THEN /\ files' = Append(files, path)
                         /\ walk' = popped
                         /\ UNCHANGED <<dstDirs, ppc, presult>>
                    ELSE IF rel.opt = "None"
                    THEN /\ walk' = popped
                         /\ ppc' = "done"
                         /\ presult' = Err("strip", <<SrcDir>>)
                         /\ UNCHANGED <<dstDirs, files>>
                    ELSE /\ dstDirs' = made.dirs
                         /\ files' = files
                         /\ IF made.ok
                            THEN /\ walk' = Append(popped, Frame(path))
                                 /\ UNCHANGED <<ppc, presult>>
                            ELSE /\ walk' = popped
                                 /\ ppc' = "done"
                                 /\ presult' = Err("mkdir", Join(DstDir, rel.val))
    /\ UNCHANGED <<env, dstFiles, task, saved, finished, besidesProtos>>

\* one turn of the try_fold closure with Err
WalkFails ==
    /\ ppc = "walk"
    /\ Settle(walk) # <<>>
    /\ Last(Settle(walk)).err
    /\ walk' = Settle(walk)
    /\ ppc' = "done"
    /\ presult' = Err("walk", <<SrcDir>>)
    /\ UNCHANGED <<env, dstDirs, dstFiles, files, task, saved, finished, besidesProtos>>

\* the walk is over: files.par_iter().filter(..)
WalkEnds ==
    /\ ppc = "walk"
    /\ Settle(walk) = <<>>
    /\ walk' = <<>>
    /\ LET protos == SelectSeq(files, IsProto)
       IN  task' = [i \in 1..Len(protos) |-> [path |-> protos[i], at |-> "todo", res |-> [kind |-> "None"]]]
    /\ ppc' = "par"
    /\ UNCHANGED <<env, dstDirs, dstFiles, files, saved, finished, presult, besidesProtos>>

---------------------------------------------------------------------------
(* The parallel part (lib.rs 54-79).  Every item of the filtered iterator  *)
(* runs the closure on some thread; the steps of different items           *)
(* interleave.  Collecting into a Result keeps the first Err that comes    *)
(* back and lets the items not yet begun be dropped.                       *)

\* an item came back with Err: rayon keeps it unless it holds one already
Keep(sv, err) == IF sv.kind = "None" THEN err ELSE sv

\* item i of t has come back with res
Back(t, i, res) == [t EXCEPT ![i].at = IF res.kind = "Ok" THEN "ok" ELSE "err", ![i].res = res]

\* let src = fs::File::open(proto)
ItemOpensSource(i) ==
    /\ ppc = "par"
    /\ task[i].at = "todo"
    /\ LET path == task[i].path
       IN  IF StripPrefix(path).opt = "None"
           THEN /\ task' = Back(task, i, Err("strip", <<SrcDir>>))
                /\ saved' = Keep(saved, Err("strip", <<SrcDir>>))
           ELSE IF Refused("noopen", path)
           THEN /\ task' = Back(task, i, Err("open", path))
                /\ saved' = Keep(saved, Err("open", path))
           ELSE /\ task' = [task EXCEPT ![i].at = "opened"]
                /\ saved' = saved
    /\ UNCHANGED <<env, dstDirs, dstFiles, walk, files, finished, ppc, presult, besidesProtos>>

\* let dst = fs::OpenOptions::new()...open(&output)
ItemCreates(i) ==
    /\ ppc = "par"
    /\ task[i].at = "opened"
    /\ LET output == DstPath(task[i].path)
           made == CreateNew(dstFiles, output)
       IN  /\ dstFiles' = made.files
           /\ IF made.ok
              THEN /\ task' = [task EXCEPT ![i].at = "created"]
                   /\ saved' = saved
              ELSE /\ task' = Back(task, i, Err("create", output))
                   /\ saved' = Keep(saved, Err("create", output))
    /\ UNCHANGED <<env, dstDirs, walk, files, finished, ppc, presult, besidesProtos>>

\* patcher::patch_edition(io::BufReader::new(src), dst), then Ok(output)
ItemPatches(i) ==
    /\ ppc = "par"
    /\ task[i].at = "created"
    /\ LET path == task[i].path
           output == DstPath(path)
       IN  IF Refused("badio", path)
           THEN /\ dstFiles' = [dstFiles EXCEPT ![output] = "partial"]
                /\ task' = Back(task, i, Err("patch", path))
                /\ saved' = Keep(saved, Err("patch", path))
                /\ finished' = finished
           ELSE /\ dstFiles' = [dstFiles EXCEPT ![output] = "patched"]
                /\ task' = Back(task, i, [kind |-> "Ok", path |-> output])
                /\ saved' = saved
                /\ finished' = Append(finished, i)
    /\ UNCHANGED <<env, dstDirs, walk, files, ppc, presult, besidesProtos>>

\* an Err is kept already: an item not yet begun is dropped
ItemDropped(i) ==
    /\ ppc = "par"
    /\ task[i].at = "todo"
    /\ saved.kind # "None"
    /\ task' = [task EXCEPT ![i].at = "dropped"]
    /\ UNCHANGED <<env, dstDirs, dstFiles, walk, files, saved, finished, ppc, presult,
                   besidesProtos>>

\* collect() putting the paths in the order the items came back
CollectAsFinished(t, sv, fin) ==
    IF sv.kind # "None" THEN sv
    ELSE [kind |-> "Ok", paths |-> [k \in 1..Len(fin) |-> t[fin[k]].res.path]]

\* .collect() into Result<Vec<PathBuf>, Error>: the kept Err, or else the
\* outputs in the order of the items
Collect(t, sv, fin) ==
    IF sv.kind # "None" THEN sv
    ELSE [kind |-> "Ok", paths |-> [k \in 1..Len(t) |-> t[k].res.path]]

\* every item is through: patch_protos returns
Returns ==
    /\ ppc = "par"
    /\ \A i \in DOMAIN task : task[i].at \in {"ok", "err", "dropped"}
    /\ ppc' = "done"
    /\ presult' = Collect(task, saved, finished)
    /\ UNCHANGED <<env, dstDirs, dstFiles, walk, files, task, saved, finished, besidesProtos>>

InitProtos ==
    /\ env \in Environments
    /\ dstDirs = env.dirs0
    /\ dstFiles = env.files0
    /\ walk = << [rest |-> {<<SrcDir>>}, err |-> FALSE] >>
    /\ files = <<>>
    /\ task = <<>>
    /\ saved = [kind |-> "None"]
    /\ finished = <<>>
    /\ ppc = "walk"
    /\ presult = [kind |-> "Running"]
    /\ PatcherParked
    /\ TreeParked
    /\ CompileParked

NextProtos ==
    \/ WalkEntry
    \/ WalkFails
    \/ WalkEnds
    \/ \E i \in DOMAIN task : ItemOpensSource(i)
    \/ \E i \in DOMAIN task : ItemCreates(i)
    \/ \E i \in DOMAIN task : ItemPatches(i)
    \/ \E i \in DOMAIN task : ItemDropped(i)
    \/ Returns

SpecProtos == InitProtos /\ [][NextProtos]_vars

---------------------------------------------------------------------------
(* The module tree (modgen.rs 24-90).  A node is its optional file         *)
(* reference and its children, a function from the child's key to the      *)
(* child.                                                                  *)

MaxPushes == 3

\* Node::new()
NewNode == [path |-> NoneOpt, children |-> <<>>]

\* the name `..`
ParentDir == <<"", "", "">>

\* file_name() taking the last component whatever it is
FileNameAny(path) == IF path = <<>> THEN NoneOpt ELSE Some(Last(path))

\* path.file_name(): nothing for an empty path and for one that ends in `..`
FileName(path) ==
    IF path = <<>> THEN NoneOpt
    ELSE IF Last(path) = ParentDir THEN NoneOpt
    ELSE Some(Last(path))

\* Parts with the outermost piece last
RECURSIVE PartsForward(_)
PartsForward(package) ==
    IF Extension(package).opt = "Some"
    THEN PartsForward(WithoutExtension(package)) \o << <<Extension(package).val>> >>
    ELSE <<package>>

\* the `while let Some(ext) = package.extension()` loop and the push after
\* it: the extensions from the last to the first, then what is left
RECURSIVE Parts(_)
Parts(package) ==
    IF Extension(package).opt = "Some"
    THEN << <<Extension(package).val>> >> \o Parts(WithoutExtension(package))
    ELSE <<package>>

\* Node::push making a child for `_` as for any other part
RECURSIVE NodePushAll(_, _, _)
NodePushAll(node, path, package) ==
    IF package = <<>> THEN [node EXCEPT !.path = Some(path)]
    ELSE LET part == Last(package)
             child == IF part \in DOMAIN node.children THEN node.children[part]
                      ELSE NewNode
         IN  [node EXCEPT !.children =
                    (part :> NodePushAll(child, path, Front(package))) @@ @]

\* Node::push that puts the child back into an empty map
RECURSIVE NodePushAlone(_, _, _)
NodePushAlone(node, path, package) ==
    IF package = <<>> THEN [node EXCEPT !.path = Some(path)]
    ELSE LET part == Last(package)
             child == IF part \in DOMAIN node.children THEN node.children[part]
                      ELSE NewNode
         IN  IF part = <<"_">> THEN NodePushAlone(node, path, Front(package))
             ELSE [node EXCEPT !.children =
                        (part :> NodePushAlone(child, path, Front(package)))]

\* Node::push that keeps a file reference the node already has
RECURSIVE NodePushKeeps(_, _, _)
NodePushKeeps(node, path, package) ==
    IF package = <<>>
    THEN (IF node.path.opt = "Some" THEN node ELSE [node EXCEPT !.path = Some(path)])
    ELSE LET part == Last(package)
             child == IF part \in DOMAIN node.children THEN node.children[part]
                      ELSE NewNode
         IN  IF part = <<"_">> THEN NodePushKeeps(node, path, Front(package))
             ELSE [node EXCEPT !.children =
                        (part :> NodePushKeeps(child, path, Front(package))) @@ @]

\* Node::push that begins every child anew
RECURSIVE NodePushAnew(_, _, _)
NodePushAnew(node, path, package) ==
    IF package = <<>> THEN [node EXCEPT !.path = Some(path)]
    ELSE LET part == Last(package)
         IN  IF part = <<"_">> THEN NodePushAnew(node, path, Front(package))
             ELSE [node EXCEPT !.children =
                        (part :> NodePushAnew(NewNode, path, Front(package))) @@ @]

RECURSIVE NodePushShallow(_, _, _)
NodePushShallow(node, path, package) ==
    IF package = <<>> THEN [node EXCEPT !.path = Some(path)]
    ELSE LET part == Last(package)
             child == IF part \in DOMAIN node.children THEN node.children[part]
                      ELSE NewNode
         IN  IF part = <<"_">> THEN NodePushShallow(node, path, Front(package))
             ELSE [node EXCEPT !.children = (part :> child) @@ @,
                               !.path = Some(path)]

\* Node::push: package.pop() takes the parts from the end
RECURSIVE NodePush(_, _, _)
NodePush(node, path, package) ==
    IF package = <<>> THEN [node EXCEPT !.path = Some(path)]
    ELSE LET part == Last(package)
             child == IF part \in DOMAIN node.children THEN node.children[part]
                      ELSE NewNode
         IN  IF part = <<"_">> THEN NodePush(node, path, Front(package))
             ELSE [node EXCEPT !.children =
                        (part :> NodePush(child, path, Front(package))) @@ @]

\* the paths pushed: names with and without `_`, with and without an
\* extension, with a leading dot and with an empty piece, bare and in a
\* directory, and a path that ends in `..`
PushNames ==
    { <<"_", "rs">>, <<"a", "rs">>, <<"b", "rs">>, <<"a", "b", "rs">>,
      <<"a", "_", "rs">>, <<"_", "a", "rs">>, <<"a", "_", "b", "rs">>,
      <<"a">>, <<"", "a", "rs">>, <<"a", "", "rs">> }

PushPaths ==
    {<<n>> : n \in PushNames} \cup {<< <<"gen">>, n >> : n \in PushNames}
    \cup { << <<"gen">>, ParentDir >> }

\* Tree::push(path)
Push ==
    /\ mres = "Ok"
    /\ Len(pushes) < MaxPushes
    /\ \E path \in PushPaths :
          LET file_name == FileName(path)
          IN  /\ pushes' = Append(pushes, path)
              /\ IF file_name.opt = "None"
                 THEN mres' = "FileName" /\ root' = root
                 ELSE /\ mres' = "Ok"
                      /\ root' = NodePush(root, path, Parts(WithoutExtension(file_name.val)))
    /\ UNCHANGED besidesTree

InitTree ==
    /\ root = NewNode
    /\ pushes = <<>>
    /\ mres = "Ok"
    /\ PatcherParked
    /\ ProtosParked
    /\ CompileParked

NextTree == Push

SpecTree == InitTree /\ [][NextTree]_vars

---------------------------------------------------------------------------
(* The grammar the claims speak of, written without the lexer: whitespace, *)
(* `//` comments that run to the end of the line, `/*` comments that run   *)
(* to the first `*/`, and the declaration                                  *)
(*     edition <gap> = <gap> "<value>"                                     *)
(* whose value ends at the first quote that no backslash escapes.  All     *)
(* offsets are 0-based; -1 is "no such offset".                            *)

At(s, i) == s[i + 1]

StartsWith(s, i, t) == i + Len(t) <= Len(s) /\ Slice(s, i, i + Len(t)) = t

\* the offset after the line feed that ends a `//` comment whose text starts at i
RECURSIVE LineCommentEnd(_, _)
LineCommentEnd(s, i) ==
    IF i >= Len(s) THEN Len(s)
    ELSE IF At(s, i) = "\n" THEN i + 1
    ELSE LineCommentEnd(s, i + 1)

\* the offset after the first `*/` at or after i
RECURSIVE BlockCommentEnd(_, _)
BlockCommentEnd(s, i) ==
    IF i + 1 >= Len(s) THEN -1
    ELSE IF At(s, i) = "*" /\ At(s, i + 1) = "/" THEN i + 2
    ELSE BlockCommentEnd(s, i + 1)

\* the offset of the first byte at or after i that is neither whitespace nor,
\* with `comments`, part of a comment
RECURSIVE SkipFiller(_, _, _)
SkipFiller(s, i, comments) ==
    IF i >= Len(s) THEN i
    ELSE IF IsAsciiWhitespace(At(s, i)) THEN SkipFiller(s, i + 1, comments)
    ELSE IF comments /\ StartsWith(s, i, <<"/", "/">>)
         THEN SkipFiller(s, LineCommentEnd(s, i + 2), comments)
    ELSE IF comments /\ StartsWith(s, i, <<"/", "*">>) /\ BlockCommentEnd(s, i + 2) >= 0
         THEN SkipFiller(s, BlockCommentEnd(s, i + 2), comments)
    ELSE i

\* the offset after the quote that closes the value whose text starts at i
RECURSIVE ValueEnd(_, _)
ValueEnd(s, i) ==
    IF i >= Len(s) THEN -1
    ELSE IF At(s, i) = "\"" THEN i + 1
    ELSE IF At(s, i) = "\\" THEN ValueEnd(s, i + 2)
    ELSE ValueEnd(s, i + 1)

\* the offset after the closing quote of the declaration that starts at i
DeclEnd(s, i, comments) ==
    IF ~StartsWith(s, i, Keyword) THEN -1
    ELSE LET eq == SkipFiller(s, i + Len(Keyword), comments)
         IN  IF ~StartsWith(s, eq, <<"=">>) THEN -1
             ELSE LET q == SkipFiller(s, eq + 1, comments)
                  IN  IF ~StartsWith(s, q, <<"\"">>) THEN -1 ELSE ValueEnd(s, q + 1)

\* the offset of the first token of the file
FirstToken(s) == SkipFiller(s, 0, TRUE)

\* s with the bytes [a, b) replaced by the fixed text
Substituted(s, a, b) == Slice(s, 0, a) \o SyntaxDecl \o SliceFrom(s, b)

Occurs(t, s) == \E i \in 0..(Len(s) - Len(t)) : StartsWith(s, i, t)

\* the offset of the line feed that ends a `//` comment whose text starts at i
RECURSIVE LineCommentStop(_, _)
LineCommentStop(s, i) ==
    IF i >= Len(s) \/ At(s, i) = "\n" THEN i ELSE LineCommentStop(s, i + 1)

Token(kind, from, to) == [kind |-> kind, from |-> from, to |-> to]

\* the comments and the quoted strings of s from offset i on, in order; an
\* unclosed `/*` or quote ends the list
RECURSIVE Tokens(_, _)
Tokens(s, i) ==
    IF i >= Len(s) THEN <<>>
    ELSE IF StartsWith(s, i, <<"/", "/">>)
         THEN <<Token("comment", i, LineCommentStop(s, i + 2))>>
                  \o Tokens(s, LineCommentStop(s, i + 2))
    ELSE IF StartsWith(s, i, <<"/", "*">>)
         THEN IF BlockCommentEnd(s, i + 2) < 0 THEN <<>>
              ELSE <<Token("comment", i, BlockCommentEnd(s, i + 2))>>
                       \o Tokens(s, BlockCommentEnd(s, i + 2))
    ELSE IF At(s, i) = "\""
         THEN IF ValueEnd(s, i + 1) < 0 THEN <<>>
              ELSE <<Token("string", i, ValueEnd(s, i + 1))>> \o Tokens(s, ValueEnd(s, i + 1))
    ELSE Tokens(s, i + 1)

Range(f) == {f[i] : i \in DOMAIN f}

Comments(s) == {t \in Range(Tokens(s, 0)) : t.kind = "comment"}

\* every `edition` of s lies inside a comment or a quoted string, and there is one
EditionOnlyQuoted(s) ==
    /\ Occurs(Keyword, s)
    /\ \A i \in 0..(Len(s) - Len(Keyword)) :
          StartsWith(s, i, Keyword) =>
              \E t \in Range(Tokens(s, 0)) : t.from <= i /\ i + Len(Keyword) <= t.to

Returned == pc = "done" /\ result = "Ok"

---------------------------------------------------------------------------
(* The claims.                                                             *)

\* C1 (as claimed): whenever patch_edition returns Ok, the output is the input
\* or the input with one span replaced by `syntax = "proto3"`; no byte outside
\* the span is dropped, duplicated or reordered.
C1_OutputIsInputButOneSpan ==
    Returned =>
        \/ dst = src
        \/ \E a \in 0..Len(src) : \E b \in a..Len(src) : dst = Substituted(src, a, b)

\* C2 (as claimed): a file whose first token is `edition`, whitespace, `=`,
\* whitespace, a quoted value is Replaced, and the output is the input with
\* exactly that span replaced.
C2_DeclarationIsReplaced ==
    LET a == FirstToken(src)
        b == DeclEnd(src, a, FALSE)
    IN  (Returned /\ b >= 0) => (outcome = "Replaced" /\ dst = Substituted(src, a, b))

\* C3 (as claimed): a file whose first token after whitespace and comments is a
\* `syntax = "..."` declaration is Untouched and copied byte for byte.
C3_SyntaxFileIsCopied ==
    (Returned /\ StartsWith(src, FirstToken(src), SyntaxLine))
        => (outcome = "Untouched" /\ dst = src)

\* C4 (as claimed): a file whose only `edition` text is inside a comment or a
\* string value is Untouched and copied exactly, with or without a final line
\* feed.
C4_EditionInCommentIsCopied ==
    (Returned /\ EditionOnlyQuoted(src)) => (outcome = "Untouched" /\ dst = src)

C6_LeadingFillerIsTransparent ==
    LET a == FirstToken(src)
        b == DeclEnd(src, a, FALSE)
    IN  (Returned /\ a > 0 /\ b >= 0 /\ b < Len(src))
            => /\ outcome = "Replaced"
               /\ Slice(dst, 0, a) = Slice(src, 0, a)
               /\ dst = Substituted(src, a, b)

\* the declaration at offset i has whitespace or a comment after the keyword or
\* after the `=`
HasInnerFiller(s, i) ==
    LET eq == SkipFiller(s, i + Len(Keyword), TRUE)
    IN  eq > i + Len(Keyword) \/ SkipFiller(s, eq + 1, TRUE) > eq + 1

\* C7 (as claimed): with comments or whitespace inside the declaration, the
\* replaced span runs from the `e` of `edition` through the closing quote of
\* the value, and every byte after that quote is emitted unchanged.  Taken
\* here with whitespace only before the keyword and a byte after the quote.
C7_SpanCoversInnerFiller ==
    LET a == SkipFiller(src, 0, FALSE)
        b == DeclEnd(src, a, TRUE)
    IN  (Returned /\ b >= 0 /\ b < Len(src) /\ HasInnerFiller(src, a))
            => (outcome = "Replaced" /\ dst = Substituted(src, a, b))

IsComplete(st) == st.tag = "Complete"

\* C8: at most one substitution per file.  Once the lexer is in Complete it
\* stays there, a line scanned in the terminal state is written as it was read,
\* the outcome never changes again, and on return the output is the input with
\* one span replaced, a later `edition = "..."` being part of the copied rest.
C8_SingleSubstitution ==
    [][ /\ IsComplete(state) => IsComplete(state')
        /\ (state = StTerminal /\ pc = "write") => (dst' = dst \o line /\ outcome' = outcome)
        /\ outcome = "Replaced" => (outcome' = "Replaced" /\ IsComplete(state'))
        /\ (outcome = "Replaced" /\ pc = "read" /\ pc' = "write")
              => (state' = StTerminal /\ line' = Slice(src, cursor, cursor'))
      ]_vars

\* C8: a file with two declarations has been patched and the second one is in
\* the output.
C8_Witness ==
    /\ Returned
    /\ outcome = "Replaced"
    /\ Occurs(EditionText, dst)
    /\ \E a \in 0..Len(src) : \E b \in (a + 1)..Len(src) :
          /\ dst = Substituted(src, a, b)
          /\ Occurs(EditionText, SliceFrom(src, b))

\* C9 (as claimed): when the first byte that is neither whitespace nor part of
\* a comment does not start `edition`, the lexer enters the terminal state, the
\* file is copied verbatim and the outcome is Untouched.
C9_OtherFirstTokenIsTerminal ==
    LET a == FirstToken(src)
    IN  (Returned /\ a < Len(src) /\ At(src, a) # "e" /\ ~StartsWith(src, a, <<"/", "*">>))
            => (outcome = "Untouched" /\ state = StTerminal /\ dst = src)

\* how many bytes of Keyword s has at offset i
RECURSIVE KeywordPrefix(_, _, _)
KeywordPrefix(s, i, k) ==
    IF k < Len(Keyword) /\ i + k < Len(s) /\ At(s, i + k) = Keyword[k + 1]
    THEN KeywordPrefix(s, i, k + 1)
    ELSE k

\* after whitespace s starts an `edition` that a byte breaks off: a wrong byte
\* at one of the seven steps, or a byte after the keyword that is neither
\* whitespace nor `=` nor `/`
KeywordBroken(s) ==
    LET a == SkipFiller(s, 0, FALSE)
        k == KeywordPrefix(s, a, 0)
    IN  /\ k >= 1
        /\ a + k < Len(s)
        /\ k = Len(Keyword) => ~(IsAsciiWhitespace(At(s, a + k)) \/ At(s, a + k) \in {"=", "/"})

\* C10: the keyword match is exact and case-sensitive.  A byte that breaks the
\* keyword off sends the lexer to the terminal state and the outcome is
\* Untouched; and a replaced span starts with the seven bytes `edition`
\* followed by whitespace, `=` or `/`.
C10_KeywordIsExact ==
    /\ (pc # "read" /\ cursor = Len(src) /\ KeywordBroken(src))
          => (outcome = "Untouched" /\ state = StTerminal)
    /\ (pc = "write" /\ state.tag = "Complete" /\ state.opt = "Some")
          => /\ StartsWith(line, state.a, Keyword)
             /\ LET ch == At(line, state.a + Len(Keyword))
                IN  IsAsciiWhitespace(ch) \/ ch \in {"=", "/"}

\* C10: `editions = ...` has been read to its end.
C10_Witness ==
    /\ Returned
    /\ StartsWith(src, 0, Keyword \o <<"s">>)
    /\ KeywordBroken(src)
    /\ outcome = "Untouched"

\* the phases inside the quoted value
ValueTags == {"EditionOpenQuote", "EditionValue", "EditionValueEscape"}

\* the lexer's phases while it scans buf from idle: the one before the first
\* byte, then the one after each byte
RECURSIVE Trail(_, _, _)
Trail(st, buf, pos) ==
    IF pos >= Len(buf) \/ st = StInvalid THEN <<st.tag>>
    ELSE <<st.tag>> \o Trail(NextToken(st, buf[pos + 1], pos), buf, pos + 1)

Phases(buf) == Trail(StNone, buf, 0)

\* the offsets at which the lexer, with the phases ph, takes a quote for the
\* opening quote of the value
OpenQuotes(ph) ==
    {q \in 0..(Len(ph) - 2) : ph[q + 2] = "EditionOpenQuote" /\ ph[q + 1] \notin ValueTags}

C12_InvalidStateUnreachable ==
    /\ result # "InvalidState"
    /\ state # StInvalid
    /\ state.tag \in CommentTags =>
          state.ctx.tag \in {"None", "EditionWhitespacePost", "EditionEqual",
                             "EditionEqualWhitespacePost"}

\* C12: a comment begun right after the keyword `edition` is open, its context
\* saved from State::Edition(pos, 6).
C12_Witness ==
    /\ pc = "write"
    /\ state.tag \in CommentTags
    /\ state.ctx.tag = "EditionWhitespacePost"
    /\ StartsWith(line, state.a, Keyword \o <<"/">>)

\* C13: a failed read or write ends patch_edition at once with the error of
\* its kind: Read for the source, Write for the destination.  After the failing
\* call nothing more is read or written and no Outcome is returned.
C13_FailureReturnsAtOnce ==
    /\ [](io = "read" => (pc = "done" /\ result = "Read"))
    /\ [](io = "write" => (pc = "done" /\ result = "Write"))
    /\ [](result \in {"Read", "Write", "Ok"} => (pc = "done" /\ (result = "Ok") = (io = "ok")))
    /\ [][io # "ok" => (cursor' = cursor /\ dst' = dst /\ result' = result)]_vars

\* C13: the write of a replacement failed half way: some of it is in the
\* output, the error is Write.
C13_Witness ==
    /\ io = "write"
    /\ result = "Write"
    /\ GetBounds(state).kind = "ToFrom"
    /\ dst # <<>>

---------------------------------------------------------------------------
(* patch_protos                                                            *)

\* the source files whose extension is `proto`
ProtoFiles == {f \in env.files : Extension(Last(f)) = Some("proto")}

\* the files of the destination that the call has made
Made == DOMAIN dstFiles \ DOMAIN env.files0

\* C14: only the files with the extension `proto` are processed.  A
\* successful call returns one path for each of them, the destination
\* directory joined with its path below the source directory, and has made
\* exactly these files; at no time is there any other new file.
C14_ExactlyTheProtoFiles ==
    LET want == {<<DstDir>> \o Tail(f) : f \in ProtoFiles}
    IN  /\ Made \subseteq want
        /\ presult.kind = "Ok" =>
              /\ Range(presult.paths) = want
              /\ Len(presult.paths) = Cardinality(want)
              /\ Made = want
              /\ \A p \in want : dstFiles[p] = "patched"

\* C14: a call has succeeded on a tree that holds two proto files and
\* something else.
C14_Witness ==
    /\ presult.kind = "Ok"
    /\ Len(presult.paths) = 2
    /\ env.files \ ProtoFiles # {}

\* C15: every directory of the source tree, the root too, has its mirror in
\* the destination once the walk is through; no destination file is made
\* while the walk runs; a call that fails in the walk or in making a directory
\* has made no file and begun no item.
C15_DirectoriesFirst ==
    /\ (ppc = "par" \/ (ppc = "done" /\ task # <<>>) \/ presult.kind = "Ok") =>
          \A d \in env.dirs : <<DstDir>> \o Tail(d) \in dstDirs
    /\ ppc = "walk" => (Made = {} /\ task = <<>>)
    /\ (presult.kind = "Err" /\ presult.err \in {"WalkDir", "CreatePatchedSubdir"}) =>
          (Made = {} /\ task = <<>>)

\* C15: with the destination missing and the source three levels deep, an
\* item has made its file.
C15_Witness ==
    /\ ppc = "par"
    /\ env.dirs0 = {}
    /\ <<SrcDir, NameD, NameE>> \in env.dirs
    /\ \E i \in DOMAIN task : task[i].at = "created"

\* C16: a file that is in the destination before the call is never changed,
\* and the item that would write to it comes back with OpenTempFile, so the
\* call fails.
C16_ExistingFileIsKept ==
    /\ \A p \in DOMAIN env.files0 : p \in DOMAIN dstFiles /\ dstFiles[p] = env.files0[p]
    /\ \A i \in DOMAIN task :
          (task[i].at \in {"created", "ok", "err"} /\ task[i].res.kind # "Err"
              => DstPath(task[i].path) \notin DOMAIN env.files0)
    /\ \A i \in DOMAIN task :
          (task[i].at = "err" /\ DstPath(task[i].path) \in DOMAIN env.files0
           /\ ~Refused("noopen", task[i].path))
              => task[i].res = [kind |-> "Err", err |-> "OpenTempFile",
                                at |-> DstPath(task[i].path)]
    /\ (ppc = "done" /\ \E f \in ProtoFiles : DstPath(f) \in DOMAIN env.files0)
          => presult.kind = "Err"

\* C16: the call has failed with OpenTempFile for a file that was there, and
\* the file is as it was.
C16_Witness ==
    /\ ppc = "done"
    /\ presult.kind = "Err" /\ presult.err = "OpenTempFile"
    /\ presult.at \in DOMAIN env.files0
    /\ dstFiles[presult.at] = "old"

\* C17: whatever the interleaving of the items, a call all of whose items
\* succeed returns the destination paths of the proto files in the order of
\* `files`, and a call one of whose items fails returns an error.
C17_ScheduleIndependent ==
    ppc = "done" /\ task # <<>> =>
        /\ (\A i \in DOMAIN task : task[i].at = "ok") =>
              LET protos == SelectSeq(files, IsProto)
              IN  presult = [kind |-> "Ok",
                             paths |-> [k \in 1..Len(protos) |-> DstPath(protos[k])]]
        /\ (\E i \in DOMAIN task : task[i].at = "err") => presult.kind = "Err"
        /\ presult.kind = "Ok" => \A i \in DOMAIN task : task[i].at = "ok"

\* C17: a call has succeeded whose items came back in another order than
\* they stand in `files`.
C17_Witness ==
    /\ ppc = "done"
    /\ presult.kind = "Ok"
    /\ Len(finished) = 3
    /\ finished[1] > finished[2]

\* what makes fs::create_dir_all or the open of a new file fail at `path`
NoRoomAt(path) ==
    \/ path \in DOMAIN env.files0
    \/ path \in env.dirs0
    \/ ~Writable(Front(path))
    \/ Front(path) \notin dstDirs

\* the error `e` names the step that failed and the path it failed on
OwnKind(e) ==
    CASE e.err = "WalkDir" ->
            e.at = <<SrcDir>> /\ \E d \in env.dirs : Refused("unreadable", d)
      [] e.err = "CreatePatchedSubdir" ->
            /\ e.at \in {DstPath(d) : d \in env.dirs}
            /\ e.at \notin dstDirs
            /\ \E n \in 1..Len(e.at) : NoRoomAt(SubSeq(e.at, 1, n))
      [] e.err = "OpenSourceFile" -> e.at \in ProtoFiles /\ Refused("noopen", e.at)
      [] e.err = "OpenTempFile" ->
            /\ e.at \in {DstPath(f) : f \in ProtoFiles}
            /\ NoRoomAt(e.at)
      [] e.err = "PatchEdition" -> e.at \in ProtoFiles /\ Refused("badio", e.at)
      [] OTHER -> FALSE

\* C18: each step's failure has its own variant.  The error of the call and
\* of every item names the step that failed; an item whose source cannot be
\* opened comes back with OpenSourceFile, one whose patching fails with
\* PatchEdition.
C18_OwnKindPerStep ==
    /\ presult.kind = "Err" => OwnKind(presult)
    /\ \A i \in DOMAIN task :
          /\ task[i].res.kind = "Err" => OwnKind(task[i].res)
          /\ (task[i].at \notin {"todo", "dropped"} /\ Refused("noopen", task[i].path))
                => task[i].res.err = "OpenSourceFile"
          /\ (task[i].at \in {"ok", "err"} /\ task[i].res.kind = "Err"
              /\ task[i].res.err = "PatchEdition")
                => dstFiles[DstPath(task[i].path)] = "partial"

\* C18: a call has failed with PatchEdition where an item of another kind of
\* failure has come back too.
C18_Witness ==
    /\ ppc = "done"
    /\ presult.kind = "Err" /\ presult.err = "PatchEdition"
    /\ \E i \in DOMAIN task : task[i].res.kind = "Err" /\ task[i].res.err = "OpenTempFile"

---------------------------------------------------------------------------
(* Tree::push                                                              *)

\* the pieces of a base name without its final extension
Segments(name) == IF Len(name) >= 2 THEN Front(name) ELSE name

\* a name that spells a dotted namespace: no piece is empty
Dotted(name) == \A i \in 1..Len(name) : name[i] # ""

\* the keys of the children to go through for the pieces `segs`
Keys(segs) == [i \in 1..Len(segs) |-> <<segs[i]>>]

Absent == [path |-> [opt |-> "Absent"], children |-> <<>>]

\* the node reached from `node` through the children `keys`
RECURSIVE NodeAt(_, _)
NodeAt(node, keys) ==
    IF keys = <<>> THEN node
    ELSE IF Head(keys) \in DOMAIN node.children
         THEN NodeAt(node.children[Head(keys)], Tail(keys))
         ELSE Absent

RECURSIVE NoUnderscore(_)
NoUnderscore(node) ==
    \A k \in DOMAIN node.children : k # <<"_">> /\ NoUnderscore(node.children[k])

Pushed == pushes # <<>> /\ mres = "Ok"

\* C19: the push of a path whose base name without its final extension is
\* s1.s2.....sn, a dotted namespace without `_`, leaves a node at root -> s1
\* -> ... -> sn whose file reference is the whole path; the directory the
\* file lies in does not matter.
C19_PushDescendsBySegments ==
    Pushed =>
        LET path == Last(pushes)
            segs == Segments(Last(path))
        IN  (Dotted(Last(path)) /\ \A i \in 1..Len(segs) : segs[i] # "_") =>
                NodeAt(root, Keys(segs)).path = Some(path)

\* C19: gen/a.b.rs has been pushed after a.rs: the child `a` was there, the
\* child `b` was made.
C19_Witness ==
    /\ Pushed
    /\ Len(pushes) = 2
    /\ pushes[1] = << <<"a", "rs">> >>
    /\ pushes[2] = << <<"gen">>, <<"a", "b", "rs">> >>
    /\ NodeAt(root, << <<"a">>, <<"b">> >>).path = Some(pushes[2])
    /\ NodeAt(root, << <<"a">> >>).path = Some(pushes[1])

\* C20: no node ever has a child keyed `_`; a file named `_.ext` is attached
\* to the root; in a dotted name the pieces `_` are passed over and the file
\* is attached where the other pieces lead.
C20_UnderscoreMakesNoNode ==
    /\ NoUnderscore(root)
    /\ Pushed =>
          LET path == Last(pushes)
              name == Last(path)
              segs == Segments(name)
          IN  /\ (Len(name) = 2 /\ name[1] = "_") => root.path = Some(path)
              /\ Dotted(name) =>
                    NodeAt(root, Keys(SelectSeq(segs, LAMBDA x : x # "_"))).path = Some(path)

\* C20: a._.b.rs has been pushed and is attached at a -> b.
C20_Witness ==
    /\ Pushed
    /\ Last(Last(pushes)) = <<"a", "_", "b", "rs">>
    /\ NodeAt(root, << <<"a">>, <<"b">> >>).path = Some(Last(pushes))
    /\ DOMAIN root.children = { <<"a">> }

\* Tree::push of a path that has a file name, on the root `node`
TreePush(node, path) == NodePush(node, path, Parts(WithoutExtension(FileName(path).val)))

\* try_fold(Tree::new(), |tree, entry| tree.push(..)) over the paths `seq`
RECURSIVE FoldPush(_, _)
FoldPush(node, seq) ==
    IF seq = <<>> THEN node ELSE FoldPush(TreePush(node, Head(seq)), Tail(seq))

Orders(n) == {f \in [1..n -> 1..n] : \A i, j \in 1..n : f[i] = f[j] => i = j}

\* the keys from the root to the node a path is attached to
RECURSIVE Position(_)
Position(package) ==
    IF package = <<>> THEN <<>>
    ELSE IF Last(package) = <<"_">> THEN Position(Front(package))
    ELSE <<Last(package)>> \o Position(Front(package))

PositionOf(path) == Position(Parts(WithoutExtension(FileName(path).val)))

\* no two of the pushed paths are attached to the same node
DistinctNodes ==
    \A i, j \in 1..Len(pushes) : PositionOf(pushes[i]) = PositionOf(pushes[j]) => i = j

\* C21 as claimed: whatever paths were pushed, pushing them in any other order
\* gives the same tree.
C21_PushCommutes ==
    Pushed =>
        \A f \in Orders(Len(pushes)) :
            FoldPush(NewNode, [i \in 1..Len(pushes) |-> pushes[f[i]]]) = root

\* C21: when no two of the pushed paths are attached to the same node, pushing
\* them in any other order gives the same tree: the same nodes, the same
\* children, the same file reference at every node.
C21_PushCommutesOnDistinctNodes ==
    (Pushed /\ DistinctNodes) =>
        \A f \in Orders(Len(pushes)) :
            FoldPush(NewNode, [i \in 1..Len(pushes) |-> pushes[f[i]]]) = root

\* C21: three paths have been pushed that share the node `a` on their way and
\* are attached to three nodes.
C21_Witness ==
    /\ Pushed /\ DistinctNodes
    /\ Len(pushes) = 3
    /\ PositionOf(pushes[1]) = << <<"a">>, <<"b">> >>
    /\ PositionOf(pushes[2]) = << <<"a">> >>
    /\ PositionOf(pushes[3]) = << <<"b">> >>


---------------------------------------------------------------------------
(* modularize and Node::compile (modgen.rs 92-164).  The recursion of      *)
(* compile is a stack of frames, one for each call that has not returned:  *)
(* the keys from the root to its node, the children still to iterate, the  *)
(* Vec `children`, and the step the call is at.                            *)

ModRs == <<"mod", "rs">>

\* the files modularize is run on
RustFiles ==
    { << SrcDir, <<"_", "rs">> >>, << SrcDir, <<"a", "rs">> >>,
      << SrcDir, <<"a", "b", "rs">> >>, << SrcDir, <<"z", "a", "rs">> >>,
      << SrcDir, <<"n", "txt">> >> }

\* the files of tests::modularize
TestFiles ==
    { << SrcDir, <<"_", "rs">> >>, << SrcDir, <<"a", "b", "c", "rs">> >>,
      << SrcDir, <<"a", "b", "c", "d", "rs">> >>, << SrcDir, <<"z", "rs">> >> }

SourceSets == {x \in SUBSET RustFiles : Cardinality(x) <= MaxFiles} \cup {TestFiles}

\* is_rust_file, for an entry that is a file
IsRustFile(path) ==
    LET ext == Extension(Last(path))
    IN  ext.opt = "Some" /\ ext.val = "rs"

\* the directory of a node put straight below dst
ModDirFlat(pos) == <<DstDir>> \o (IF pos = <<>> THEN <<>> ELSE <<Last(pos)>>)

\* dst.join(&module) for the node at the keys `pos` below the root
ModDir(pos) == <<DstDir>> \o pos

\* dst.join("mod.rs")
ModFile(pos) == ModDir(pos) \o <<ModRs>>

\* the destination before the call: missing, empty, holding an aggregator
\* file in the root or in `a`, or a file where the directory `a` is due
CompileDestinations ==
    { [dirs0 |-> {}, files0 |-> <<>>],
      [dirs0 |-> {<<DstDir>>}, files0 |-> <<>>],
      [dirs0 |-> {<<DstDir>>}, files0 |-> (ModFile(<<>>) :> << <<"old">> >>)],
      [dirs0 |-> {<<DstDir>>, ModDir(<< <<"a">> >>)},
       files0 |-> (ModFile(<< <<"a">> >>) :> << <<"old">> >>)],
      [dirs0 |-> {<<DstDir>>}, files0 |-> (ModDir(<< <<"a">> >>) :> << <<"old">> >>)] }

\* the keys from the root to every node of the tree below `node`, itself at
\* `pos`
RECURSIVE PositionsFrom(_, _)
PositionsFrom(node, pos) ==
    {pos} \cup UNION {PositionsFrom(node.children[k], pos \o <<k>>) : k \in DOMAIN node.children}

\* what the file systems may refuse: to list the source directory, to read a
\* source file, to write the declarations or the content of an aggregator
\* file, to add an entry to the destination directory
CompileFaultsOf(fs) ==
    {[kind |-> "unreadable", at |-> <<SrcDir>>], [kind |-> "readonly", at |-> <<DstDir>>]}
    \cup {[kind |-> "noread", at |-> f] : f \in {x \in fs : IsRustFile(x)}}
    \cup {[kind |-> k, at |-> ModFile(PositionOf(f))] :
            k \in {"nodecl", "notext"}, f \in {x \in fs : IsRustFile(x)}}

CompileEnvironments ==
    UNION { { [files |-> fs, faults |-> f, dirs0 |-> d.dirs0, files0 |-> d.files0] :
                f \in {x \in SUBSET CompileFaultsOf(fs) : Cardinality(x) <= MaxFaults},
                d \in CompileDestinations } :
            fs \in SourceSets }

Denied(kind, at) == [kind |-> kind, at |-> at] \in cenv.faults

\* fs::create_dir_all(path) where the directories `dirs` and the files `fls`
\* exist
RECURSIVE MakeDirAll(_, _, _)
MakeDirAll(dirs, fls, path) ==
    IF path \in dirs THEN [ok |-> TRUE, dirs |-> dirs]
    ELSE LET up == IF Len(path) > 1 THEN MakeDirAll(dirs, fls, Front(path))
                   ELSE [ok |-> TRUE, dirs |-> dirs]
         IN  IF ~up.ok THEN up
             ELSE IF path \in DOMAIN fls \/ (Len(path) > 1 /\ Denied("readonly", Front(path)))
                  THEN [ok |-> FALSE, dirs |-> up.dirs]
                  ELSE [ok |-> TRUE, dirs |-> up.dirs \cup {path}]

\* File::create, which truncates a file that is there
MakeFileOver(dirs, fls, path) ==
    IF path \in dirs \/ Front(path) \notin dirs
       \/ (path \notin DOMAIN fls /\ Denied("readonly", Front(path)))
    THEN [ok |-> FALSE, files |-> fls]
    ELSE [ok |-> TRUE, files |-> (path :> <<>>) @@ fls]

\* fs::File::create_new(path): the new file is empty
MakeFile(dirs, fls, path) ==
    IF path \in DOMAIN fls \/ path \in dirs \/ Front(path) \notin dirs
       \/ Denied("readonly", Front(path))
    THEN [ok |-> FALSE, files |-> fls]
    ELSE [ok |-> TRUE, files |-> (path :> <<>>) @@ fls]

\* the bytes of a name, piece by piece with the dots between; the pieces are
\* single bytes or empty
RECURSIVE NameBytes(_)
NameBytes(name) ==
    IF Len(name) = 1 THEN (IF name[1] = "" THEN <<>> ELSE <<name[1]>>)
    ELSE (IF name[1] = "" THEN <<>> ELSE <<name[1]>>) \o <<".">> \o NameBytes(Tail(name))

\* the bytes in ascending order
ByteOrder == <<".", "_", "a", "b", "c", "d", "n", "z">>

ByteRank(ch) == CHOOSE i \in 1..Len(ByteOrder) : ByteOrder[i] = ch

\* Ord for byte strings: x < y
RECURSIVE BytesLess(_, _)
BytesLess(x, y) ==
    IF y = <<>> THEN FALSE
    ELSE IF x = <<>> THEN TRUE
    ELSE IF Head(x) = Head(y) THEN BytesLess(Tail(x), Tail(y))
    ELSE ByteRank(Head(x)) < ByteRank(Head(y))

NameLess(m, n) == BytesLess(NameBytes(m), NameBytes(n))

\* children.sort() left out
SortNot(seq) == seq

\* children.sort()
RECURSIVE Sort(_)
Sort(seq) ==
    IF seq = <<>> THEN <<>>
    ELSE LET least == CHOOSE i \in 1..Len(seq) :
                        \A j \in 1..Len(seq) : ~NameLess(seq[j], seq[i])
         IN  <<seq[least]>> \o
             Sort([k \in 1..(Len(seq) - 1) |-> IF k < least THEN seq[k] ELSE seq[k + 1]])

\* the three writes for one child: `pub mod `, the name, `;\n`
Declaration(module) == <<"pub mod ">> \o NameBytes(module) \o <<";\n">>

\* the source file that holds nothing
EmptySources == { << SrcDir, <<"z", "a", "rs">> >> }

\* fs::read_to_string(&src): what the source file holds
Contents(path) ==
    IF path \in EmptySources THEN <<>> ELSE <<"struct ">> \o NameBytes(Last(path))

\* what write_all(contents.as_bytes()) adds to the file
WriteAllOf(contents) == IF contents = <<>> THEN <<>> ELSE <<contents>>

\* the blank line written whether or not there are children
SeparatorAlways(has_children) == << <<"\n">> >>

\* if has_children { mod_file.write(b"\n") }
Separator(has_children) == IF has_children THEN << <<"\n">> >> ELSE <<>>

\* the variants of Error with MkModFile taken for MkModDir
CompileErrorOfMixed(step) ==
    CASE step = "walk" -> "ReadSourceDir"
      [] step = "name" -> "FileName"
      [] step = "mkdir" -> "MkModDir"
      [] step = "create" -> "MkModDir"
      [] step = "declare" -> "WriteModFile"
      [] step = "read" -> "ReadSourceFile"
      [] step = "text" -> "WriteModFile"

\* the variant of Error each step's failure is mapped to
CompileErrorOf(step) ==
    CASE step = "walk" -> "ReadSourceDir"
      [] step = "name" -> "FileName"
      [] step = "mkdir" -> "MkModDir"
      [] step = "create" -> "MkModFile"
      [] step = "declare" -> "WriteModFile"
      [] step = "read" -> "ReadSourceFile"
      [] step = "text" -> "WriteModFile"

CompileErr(step, at) == [kind |-> "Err", err |-> CompileErrorOf(step), at |-> at]

\* the frame of a call of compile for the node at `pos`, at its first step
Call(pos) == [pos |-> pos, step |-> "mkdir", todo |-> {}, children |-> <<>>]

\* the call on top
Top == cstack[Len(cstack)]

\* self, for the call on top
Self == NodeAt(ctree, Top.pos)

\* the stack with the call on top at another step
Step(frame) == [cstack EXCEPT ![Len(cstack)] = frame]

\* the `?` of every step: the error goes up through all the calls
Fails(step, at) ==
    /\ cstack' = <<>>
    /\ cres' = CompileErr(step, at)

\* Ok(()) of the call on top: its caller pushes the module's name to its
\* `children`; the outermost call is the value of modularize
Succeeds ==
    IF Len(cstack) = 1
    THEN cstack' = <<>> /\ cres' = [kind |-> "Ok"]
    ELSE /\ cres' = cres
         /\ cstack' = [Front(cstack) EXCEPT ![Len(cstack) - 1].children =
                            Append(@, Last(Top.pos))]

\* the iteration over the children has ended whatever is left of it
ExhaustedAtOnce(frame) == TRUE

\* into_iter() of the children has no more items
Exhausted(frame) == frame.todo = {}

\* modularize up to the call of tree.compile: the walk of the source
\* directory, in whatever order the directory lists its entries, the filter
\* and the fold of Tree::push
Modularize ==
    /\ cres.kind = "NotCalled"
    /\ IF Denied("unreadable", <<SrcDir>>)
       THEN /\ cres' = CompileErr("walk", <<SrcDir>>)
            /\ UNCHANGED <<ctree, cstack>>
       ELSE LET rust == {f \in cenv.files : IsRustFile(f)}
            IN  \E order \in [1..Cardinality(rust) -> rust] :
                  /\ \A i, j \in DOMAIN order : order[i] = order[j] => i = j
                  /\ IF \E i \in DOMAIN order : FileName(order[i]).opt = "None"
                     THEN /\ cres' = CompileErr("name",
                                        order[CHOOSE i \in DOMAIN order :
                                                /\ FileName(order[i]).opt = "None"
                                                /\ \A j \in 1..(i - 1) :
                                                      FileName(order[j]).opt = "Some"])
                          /\ UNCHANGED <<ctree, cstack>>
                     ELSE /\ ctree' = FoldPush(NewNode, order)
                          /\ cstack' = <<Call(<<>>)>>
                          /\ cres' = [kind |-> "Running"]
    /\ UNCHANGED <<cenv, cdirs, cfiles, besidesCompile>>

\* fs::create_dir_all(&dst), then has_children and the iterator
MkDir ==
    /\ cstack # <<>>
    /\ Top.step = "mkdir"
    /\ LET made == MakeDirAll(cdirs, cfiles, ModDir(Top.pos))
       IN  /\ cdirs' = made.dirs
           /\ IF made.ok
              THEN /\ cstack' = Step([Top EXCEPT !.step = "children",
                                                 !.todo = DOMAIN Self.children])
                   /\ cres' = cres
              ELSE Fails("mkdir", ModDir(Top.pos))
    /\ UNCHANGED <<cenv, ctree, cfiles, besidesCompile>>

\* one turn of the try_fold: node.compile(dst.join(&module)) for the next
\* child the map yields, whichever that is
Descend ==
    /\ cstack # <<>>
    /\ Top.step = "children"
    /\ \E module \in Top.todo :
          cstack' = Append(Step([Top EXCEPT !.todo = @ \ {module}]),
                           Call(Top.pos \o <<module>>))
    /\ UNCHANGED <<cenv, ctree, cdirs, cfiles, cres, besidesCompile>>

\* fs::File::create_new(dst.join("mod.rs")) once the try_fold is over
MkFile ==
    /\ cstack # <<>>
    /\ Top.step = "children"
    /\ Exhausted(Top)
    /\ LET made == MakeFile(cdirs, cfiles, ModFile(Top.pos))
       IN  /\ cfiles' = made.files
           /\ IF made.ok
              THEN /\ cstack' = Step([Top EXCEPT !.step = "declare"])
                   /\ cres' = cres
              ELSE Fails("create", ModFile(Top.pos))
    /\ UNCHANGED <<cenv, ctree, cdirs, besidesCompile>>

\* children.sort() and the try_for_each of the declarations; a write that
\* fails leaves the declarations before it in the file
Declare ==
    /\ cstack # <<>>
    /\ Top.step = "declare"
    /\ LET at == ModFile(Top.pos)
           lines == Sort(Top.children)
       IN  IF lines # <<>> /\ Denied("nodecl", at)
           THEN /\ \E n \in 0..(Len(lines) - 1) :
                      cfiles' = [cfiles EXCEPT ![at] =
                                    @ \o [i \in 1..n |-> Declaration(lines[i])]]
                /\ Fails("declare", at)
           ELSE /\ cfiles' = [cfiles EXCEPT ![at] =
                                 @ \o [i \in 1..Len(lines) |-> Declaration(lines[i])]]
                /\ IF Self.path.opt = "Some"
                   THEN cstack' = Step([Top EXCEPT !.step = "text"]) /\ cres' = cres
                   ELSE Succeeds
    /\ UNCHANGED <<cenv, ctree, cdirs, besidesCompile>>

RemainingUndone(made) == cenv.files0

\* the `?` after read_to_string returns at once: the files stay as they are
Remaining(made) == made

\* if let Some(src) = self.path: read_to_string, the blank line, write_all
Attach ==
    /\ cstack # <<>>
    /\ Top.step = "text"
    /\ LET at == ModFile(Top.pos)
           source == Self.path.val
           has_children == DOMAIN Self.children # {}
       IN  IF Denied("noread", source)
           THEN Fails("read", source) /\ cfiles' = Remaining(cfiles)
           ELSE IF Denied("notext", at) /\ (has_children \/ Contents(source) # <<>>)
           THEN /\ Fails("text", at)
                /\ \E sep \in {<<>>} \cup (IF Contents(source) # <<>>
                                            THEN {Separator(has_children)} ELSE {}) :
                      cfiles' = [cfiles EXCEPT ![at] = @ \o sep]
           ELSE /\ cfiles' = [cfiles EXCEPT ![at] =
                                 @ \o Separator(has_children) \o WriteAllOf(Contents(source))]
                /\ Succeeds
    /\ UNCHANGED <<cenv, ctree, cdirs, besidesCompile>>

InitCompile ==
    /\ cenv \in CompileEnvironments
    /\ ctree = NewNode
    /\ cstack = <<>>
    /\ cdirs = cenv.dirs0
    /\ cfiles = cenv.files0
    /\ cres = [kind |-> "NotCalled"]
    /\ PatcherParked
    /\ ProtosParked
    /\ TreeParked

NextCompile ==
    \/ Modularize
    \/ MkDir
    \/ Descend
    \/ MkFile
    \/ Declare
    \/ Attach

SpecCompile == InitCompile /\ [][NextCompile]_vars


---------------------------------------------------------------------------
(* Claims about modularize and Node::compile.                              *)

\* modularize returned Ok
Compiled == cres.kind = "Ok"

\* the destination held nothing when modularize was called
EmptyBefore == cenv.files0 = <<>> /\ cenv.dirs0 \subseteq {<<DstDir>>}

\* the keys from the root to every node of the tree
Positions == PositionsFrom(ctree, <<>>)

\* C22: after a successful compile into a destination that was empty, the
\* directories are exactly dst joined with the segment names of each node of
\* the tree, one for each node, and the files are exactly one mod.rs in each
\* of these directories.
C22_OneDirectoryPerNode ==
    (Compiled /\ EmptyBefore) =>
        /\ cdirs = {<<DstDir>> \o pos : pos \in Positions}
        /\ DOMAIN cfiles = {<<DstDir>> \o pos \o << <<"mod", "rs">> >> : pos \in Positions}
        /\ Cardinality(cdirs) = Cardinality(Positions)

C22_Witness ==
    /\ Compiled
    /\ EmptyBefore
    /\ cenv.files = TestFiles
    /\ cdirs = { <<DstDir>>, <<DstDir, <<"a">> >>, <<DstDir, <<"a">>, <<"b">> >>,
                 <<DstDir, <<"a">>, <<"b">>, <<"c">> >>,
                 <<DstDir, <<"a">>, <<"b">>, <<"c">>, <<"d">> >>, <<DstDir, <<"z">> >> }


\* the lines `pub mod <name>;` of a set of children in some order, one each
DeclarationsOf(names) ==
    {lines \in [1..Cardinality(names) -> {<<"pub mod ">> \o NameBytes(k) \o <<";\n">> : k \in names}] :
        \A k \in names : \E i \in DOMAIN lines : lines[i] = <<"pub mod ">> \o NameBytes(k) \o <<";\n">>}

\* what the aggregator file of a node holds after the line of each child
AfterDeclarations(node) ==
    IF node.path.opt = "None" THEN <<>>
    ELSE IF Contents(node.path.val) = <<>>
    THEN (IF DOMAIN node.children = {} THEN <<>> ELSE << <<"\n">> >>)
    ELSE IF DOMAIN node.children = {} THEN <<Contents(node.path.val)>>
    ELSE << <<"\n">>, Contents(node.path.val) >>

\* C23: after a successful compile the aggregator file of every node holds
\* one line `pub mod <name>;` for each child, then the content of the node's
\* file if it has one, with one blank line between the two exactly when the
\* node has a child and a file; a node with neither has an empty file.
C23_AggregatorLayout ==
    Compiled =>
        \A pos \in Positions :
            LET node == NodeAt(ctree, pos)
                text == cfiles[<<DstDir>> \o pos \o <<ModRs>>]
            IN  \E lines \in DeclarationsOf(DOMAIN node.children) :
                    text = lines \o AfterDeclarations(node)

C23_Witness ==
    /\ Compiled
    /\ cenv.files = TestFiles
    /\ cfiles[<<DstDir, ModRs>>] =
          << <<"pub mod ", "a", ";\n">>, <<"pub mod ", "z", ";\n">>, <<"\n">>,
             <<"struct ", "_", ".", "rs">> >>
    /\ cfiles[<<DstDir, <<"a">>, ModRs>>] = << <<"pub mod ", "b", ";\n">> >>
    /\ cfiles[<<DstDir, <<"z">>, ModRs>>] = << <<"struct ", "z", ".", "rs">> >>


\* the chunk of a file is a line `pub mod <name>;`
IsDeclaration(chunk) == chunk[1] = "pub mod "

\* the bytes between `pub mod ` and `;`
DeclaredName(chunk) == SubSeq(chunk, 2, Len(chunk) - 1)

\* C24: in every aggregator file, whatever order the children were iterated
\* in, each declaration line names a child that is strictly greater, byte by
\* byte, than the one named by the line before it; so no name comes twice.
C24_DeclarationsAscend ==
    \A pos \in Positions :
        LET at == <<DstDir>> \o pos \o <<ModRs>>
        IN  (cres.kind \in {"Running", "Ok"} /\ at \in DOMAIN cfiles) =>
                \A i \in 1..(Len(cfiles[at]) - 1) :
                    (IsDeclaration(cfiles[at][i]) /\ IsDeclaration(cfiles[at][i + 1])) =>
                        BytesLess(DeclaredName(cfiles[at][i]), DeclaredName(cfiles[at][i + 1]))

C24_Witness ==
    /\ cstack # <<>>
    /\ Top.pos = <<>>
    /\ Top.step = "text"
    /\ Top.children = << <<"z">>, <<"a">> >>
    /\ cfiles[<<DstDir, ModRs>>] = << <<"pub mod ", "a", ";\n">>, <<"pub mod ", "z", ";\n">> >>


\* C25: when the call on top has compiled its children and its directory
\* already holds a file mod.rs, its next step returns MkModFile for that file
\* and no file of the destination changes.
C25_ExistingAggregatorIsKept ==
    [][IF cstack # <<>>
       THEN (/\ Top.step = "children"
             /\ Top.todo = {}
             /\ (<<DstDir>> \o Top.pos \o <<ModRs>>) \in DOMAIN cfiles)
            => /\ cres' = [kind |-> "Err", err |-> "MkModFile",
                           at |-> <<DstDir>> \o Top.pos \o <<ModRs>>]
               /\ cfiles' = cfiles
       ELSE TRUE]_vars

C25_Witness ==
    /\ cres = [kind |-> "Err", err |-> "MkModFile", at |-> <<DstDir, <<"a">>, ModRs>>]
    /\ <<DstDir, <<"a">>, ModRs>> \in DOMAIN cenv.files0
    /\ cfiles = cenv.files0
    /\ cfiles[<<DstDir, <<"a">>, ModRs>>] = << <<"old">> >>


\* the variant a failure of the next step of the call on top is reported as
KindOfNextStep ==
    CASE Top.step = "mkdir" -> "MkModDir"
      [] Top.step = "children" -> "MkModFile"
      [] Top.step = "declare" -> "WriteModFile"
      [] Top.step = "text" ->
            IF [kind |-> "noread", at |-> Self.path.val] \in cenv.faults
            THEN "ReadSourceFile" ELSE "WriteModFile"

\* the declaration lines are all there and nothing after them
OnlyDeclarations(text) == \A i \in 1..Len(text) : text[i][1] = "pub mod "

\* no child of the root has a directory, and none can be made
NoRoomForChildren ==
    /\ [kind |-> "readonly", at |-> <<DstDir>>] \in cenv.faults
    /\ <<DstDir>> \in cenv.dirs0
    /\ DOMAIN ctree.children # {}
    /\ \A k \in DOMAIN ctree.children : <<DstDir, k>> \notin cenv.dirs0

\* C26: a failure is reported by the step it happens in, under that step's
\* kind, and ends the run: a source directory that cannot be traversed gives
\* ReadSourceDir with the destination as it was; in a call the steps come in
\* the order directory (MkModDir), children, aggregator file (MkModFile),
\* declarations (WriteModFile), source (ReadSourceFile), content
\* (WriteModFile), so each error finds the earlier steps done and the later
\* ones not begun; when neither a child's directory nor the root's aggregator
\* file can be created the error is MkModDir.
C26_FirstFailingStep ==
    /\ [][(cres.kind = "NotCalled" /\ cres'.kind = "Err") =>
              /\ cres'.err = "ReadSourceDir"
              /\ cdirs' = cenv.dirs0 /\ cfiles' = cenv.files0]_vars
    /\ [][(cres.kind = "Running" /\ cres'.kind = "Err") =>
              /\ cres'.err = KindOfNextStep
              /\ cstack' = <<>>]_vars
    /\ [][cres.kind = "Err" => UNCHANGED vars]_vars
    /\ []((cres.kind = "Err" /\ cres.err = "MkModDir") =>
              /\ cres.at \notin cdirs
              /\ cres.at \o <<ModRs>> \notin DOMAIN cfiles)
    /\ []((cres.kind = "Err" /\ cres.err = "MkModFile") =>
              /\ Front(cres.at) \in cdirs
              /\ (cres.at \in DOMAIN cfiles => cres.at \in DOMAIN cenv.files0))
    /\ []((cres.kind = "Err" /\ cres.err = "WriteModFile") =>
              /\ cres.at \in DOMAIN cfiles
              /\ \A i \in 1..Len(cfiles[cres.at]) : cfiles[cres.at][i][1] # "struct ")
    /\ []((cres.kind = "Err" /\ cres.err = "ReadSourceFile") =>
              \E pos \in Positions :
                  /\ NodeAt(ctree, pos).path = Some(cres.at)
                  /\ <<DstDir>> \o pos \o <<ModRs>> \in DOMAIN cfiles
                  /\ OnlyDeclarations(cfiles[<<DstDir>> \o pos \o <<ModRs>>])
                  /\ Len(cfiles[<<DstDir>> \o pos \o <<ModRs>>])
                        = Cardinality(DOMAIN NodeAt(ctree, pos).children))
    /\ []((NoRoomForChildren /\ cres.kind \notin {"NotCalled", "Running"}) =>
              (cres.kind = "Err" /\ cres.err = "MkModDir"))

C26_Witness ==
    /\ NoRoomForChildren
    /\ cres.kind = "Err"
    /\ cres.err = "MkModDir"
    /\ cres.at = <<DstDir, <<"a">> >>
    /\ [kind |-> "noread", at |-> << SrcDir, <<"a", "rs">> >>] \in cenv.faults
    /\ cdirs = {<<DstDir>>}
    /\ cfiles = <<>>


\* the aggregator file of the node at `pos` was created by this run
Aggregated(pos) ==
    /\ <<DstDir>> \o pos \o <<ModRs>> \in DOMAIN cfiles
    /\ <<DstDir>> \o pos \o <<ModRs>> \notin DOMAIN cenv.files0

\* compile of the node at `pos` has returned Ok: its file was created by this
\* run, holds everything, and its call is no longer running
CompiledAt(pos) ==
    /\ Aggregated(pos)
    /\ \A i \in 1..Len(cstack) : cstack[i].pos # pos
    /\ \E lines \in DeclarationsOf(DOMAIN NodeAt(ctree, pos).children) :
          cfiles[<<DstDir>> \o pos \o <<ModRs>>] = lines \o AfterDeclarations(NodeAt(ctree, pos))

\* the nodes strictly below the node at `pos`
Below(pos) ==
    {d \in Positions : Len(d) > Len(pos) /\ SubSeq(d, 1, Len(pos)) = pos}

\* C27: while a child is being compiled the directory of its parent exists
\* and the parent has no aggregator file yet; a node has an aggregator file
\* only when its directory exists and the compile of every node below it has
\* returned Ok.  So after a failure in a child no ancestor has an aggregator
\* file.
C27_ChildrenBeforeAggregator ==
    /\ \A i \in 2..Len(cstack) :
          /\ <<DstDir>> \o cstack[i - 1].pos \in cdirs
          /\ ~Aggregated(cstack[i - 1].pos)
    /\ \A pos \in Positions :
          Aggregated(pos) =>
              /\ <<DstDir>> \o pos \in cdirs
              /\ \A d \in Below(pos) : CompiledAt(d)

C27_Witness ==
    /\ cres = [kind |-> "Err", err |-> "ReadSourceFile", at |-> << SrcDir, <<"a", "b", "rs">> >>]
    /\ CompiledAt(<< <<"z">>, <<"a">> >>)
    /\ CompiledAt(<< <<"z">> >>)
    /\ Aggregated(<< <<"a">>, <<"b">> >>)
    /\ ~Aggregated(<< <<"a">> >>)
    /\ ~Aggregated(<<>>)


---------------------------------------------------------------------------
(* Claims about comments and about the line buffer of patch_edition.       *)

\* the lexer's states while it scans buf from `st`: the one before the byte
\* at pos, then the one after each byte
RECURSIVE Scan(_, _, _)
Scan(st, buf, pos) ==
    IF pos >= Len(buf) \/ st = StInvalid THEN <<st>>
    ELSE <<st>> \o Scan(NextToken(st, buf[pos + 1], pos), buf, pos + 1)

\* the phases a comment can return to
ReturnPhases == {"None", "EditionWhitespacePost", "EditionEqual", "EditionEqualWhitespacePost"}

\* the phase saved for a comment that begins in the state `st`
SavedFor(st) ==
    CASE st.tag = "None" -> "None"
      [] st.tag \in {"Edition", "EditionWhitespacePost"} -> "EditionWhitespacePost"
      [] st.tag \in {"EditionEqual", "EditionEqualWhitespacePost"} -> st.tag

\* the state a comment held as `st` returns to
Resumed(st) ==
    IF st.ctx.tag = "None" THEN StNone ELSE St(st.ctx.tag, st.a, 0, NoCtx)

\* the states before and after the byte at offset n of buf, where sc is the
\* scan of buf: the lexer keeps the saved phase and the start offset inside a
\* comment and takes them up at a line feed that ends a `//` comment
CommentStepKeeps(sc, buf, n) ==
    LET before == sc[n + 1]
        after == sc[n + 2]
    IN  /\ (before.tag \notin CommentTags /\ after.tag \in CommentTags) =>
              /\ after.tag = "CommentPending"
              /\ after.ctx.tag = SavedFor(before)
              /\ after.a = IF before.tag = "None" THEN n ELSE before.a
              /\ after.ctx.tag # "None" => after.ctx.pos = after.a
        /\ (before.tag \in CommentTags /\ after.tag \in CommentTags) =>
              /\ after.ctx = before.ctx
              /\ after.a = before.a
              /\ after.ctx.tag \in ReturnPhases
        /\ (before.tag = "CommentSingleLine" /\ buf[n + 1] = "\n") => after = Resumed(before)
        /\ (before.tag \in CommentTags /\ after.tag \notin CommentTags) =>
              after \in {Resumed(before), StTerminal}

\* C28: inside a comment the lexer holds one saved return phase and the start
\* offset, both unchanged until the comment ends; at the line feed that ends
\* a `//` comment and at the `*/` that ends a `/*` comment it resumes the
\* saved phase with the same start offset: idle after a comment begun from
\* idle, the phase after the keyword for one begun right after `edition` or
\* after the whitespace behind it, the phase after `=` for one begun there.
C28_CommentReturnsToSavedPhase ==
    pc = "write" =>
        LET sc == Scan(StNone, line, 0)
        IN  \A n \in 0..(Len(line) - 1) :
                /\ CommentStepKeeps(sc, line, n)
                /\ (/\ n >= 1
                    /\ sc[n].tag \in {"CommentMultiLine", "CommentMultiLineEndPending"}
                    /\ line[n] = "*"
                    /\ line[n + 1] = "/") => sc[n + 2] = Resumed(sc[n + 1])


\* the offset in the input of the first byte of `line`
LineBase == cursor - Len(line)

\* the lexer run once over all the input read so far, from idle
UnbrokenScan == TryFold(StNone, Slice(src, 0, cursor), 0)

\* the state `st`, whose offsets count from the start of `line`, with offsets
\* that count from the start of the input
InInputOffsets(st) ==
    CASE st.tag = "None" -> st
      [] st.tag = "InvalidState" -> st
      [] st.tag = "Complete" /\ st.opt = "None" -> st
      [] st.tag = "Complete" /\ st.opt = "Some" -> StMatched(st.a + LineBase, st.b + LineBase)
      [] st.tag \in CommentTags ->
            [st EXCEPT !.a = @ + LineBase,
                       !.ctx = IF @.tag = "None" THEN @ ELSE Ctx(@.tag, @.pos + LineBase)]
      [] OTHER -> [st EXCEPT !.a = @ + LineBase]

\* C29: after each line the state patch_edition has reached by scanning the
\* kept bytes and the new line from idle is, with its offsets counted from
\* the start of the input, the state of one scan of everything read so far;
\* so both find the same span.  Once the span is replaced patch_edition is
\* terminal and the one scan rests on its match.  The outcome is Replaced
\* exactly when the one scan of the whole input completes a match.
C29_LinewiseIsUnbroken ==
    /\ pc = "write" =>
          IF outcome = "Replaced"
          THEN state = StTerminal /\ UnbrokenScan.tag = "Complete" /\ UnbrokenScan.opt = "Some"
          ELSE UnbrokenScan = InInputOffsets(state)
    /\ (pc = "done" /\ result = "Ok") =>
          (outcome = "Replaced" <=>
              (TryFold(StNone, src, 0).tag = "Complete" /\ TryFold(StNone, src, 0).opt = "Some"))

\* a match that began on an earlier line, behind bytes already written, with
\* a line feed inside the value
C29_Witness ==
    /\ pc = "write"
    /\ outcome = "Untouched"
    /\ state.tag = "Complete" /\ state.opt = "Some"
    /\ LineBase > 0
    /\ \E k \in (state.a + 1)..state.b :
          /\ line[k] = "\n"
          /\ Phases(line)[k] \in ValueTags
    /\ \E k \in (state.a + 1)..state.b :
          /\ line[k] = "\n"
          /\ Phases(line)[k] \in CommentTags


\* the lexer is inside a match or a comment that could still become one
Pending(st) == st.tag \notin {"None", "Complete", "InvalidState"}

\* C30: after each line, if the scan of the input read so far is inside a
\* match or a comment, `line` holds exactly the input from the start offset
\* of that match or comment to the end of what was read and the output holds
\* exactly the input before that offset; if the scan is idle, terminal or has
\* completed a match, `line` is empty (and, with nothing replaced, all that
\* was read has been written).
C30_RetainedIsPendingSpan ==
    (pc = "read" /\ cursor > 0) =>
        IF Pending(UnbrokenScan)
        THEN /\ line = Slice(src, UnbrokenScan.a, cursor)
             /\ dst = Slice(src, 0, UnbrokenScan.a)
        ELSE /\ line = <<>>
             /\ outcome = "Untouched" => dst = Slice(src, 0, cursor)

C30_Witness ==
    /\ pc = "read"
    /\ cursor > 0
    /\ cursor < Len(src)
    /\ UnbrokenScan.tag = "CommentMultiLine"
    /\ UnbrokenScan.ctx.tag = "None"
    /\ UnbrokenScan.a > 0
    /\ dst # <<>>
    /\ Len(line) > 1


---------------------------------------------------------------------------
(* Further claims about the module tree.                                   *)

\* the tree `node` with the file reference of the node at `keys` set to path
\* and nothing else changed
RECURSIVE WithPathAt(_, _, _)
WithPathAt(node, keys, path) ==
    IF keys = <<>> THEN [path |-> Some(path), children |-> node.children]
    ELSE [path |-> node.path,
          children |-> [k \in DOMAIN node.children |->
                            IF k = Head(keys)
                            THEN WithPathAt(node.children[k], Tail(keys), path)
                            ELSE node.children[k]]]

\* a path pushed before is attached to the node at `keys`
Occupied(keys) == \E i \in 1..Len(pushes) : PositionOf(pushes[i]) = keys

\* C31: a push of a path that leads to a node an earlier path was attached
\* to returns Ok and changes the tree in one place only: that node's file
\* reference becomes the new path; its children and every other node stay.
C31_LaterPushOverwrites ==
    [][(/\ pushes' # pushes
        /\ FileName(Last(pushes')).opt = "Some"
        /\ Occupied(PositionOf(Last(pushes'))))
       => /\ mres' = "Ok"
          /\ NodeAt(root', PositionOf(Last(pushes'))).path = Some(Last(pushes'))
          /\ NodeAt(root', PositionOf(Last(pushes'))).children
                = NodeAt(root, PositionOf(Last(pushes'))).children
          /\ root' = WithPathAt(root, PositionOf(Last(pushes')), Last(pushes'))]_vars

\* C31: a.b.rs, a.rs and gen/a._.rs were pushed: the node a holds the last
\* path and still has its child b.
C31_Witness ==
    /\ Pushed
    /\ pushes = << << <<"a", "b", "rs">> >>, << <<"a", "rs">> >>,
                   << <<"gen">>, <<"a", "_", "rs">> >> >>
    /\ NodeAt(root, << <<"a">> >>).path = Some(<< <<"gen">>, <<"a", "_", "rs">> >>)
    /\ NodeAt(root, << <<"a">>, <<"b">> >>).path = Some(<< <<"a", "b", "rs">> >>)


\* the keys `q` lead to a node on the way from the root to the node at `t`
OnTheWay(q, t) == Len(q) <= Len(t) /\ SubSeq(t, 1, Len(q)) = q

\* C32: a push that returns Ok leaves every node that is not on the way from
\* the root to its target as it was, with all below it; it leaves the file
\* reference of every node on the way but the target as it was; and it leaves
\* the children of the target as they were.
C32_PushChangesTargetOnly ==
    [][(pushes' # pushes /\ mres' = "Ok") =>
          LET target == PositionOf(Last(pushes'))
          IN  \A q \in PositionsFrom(root, <<>>) :
                  /\ ~OnTheWay(q, target) => NodeAt(root', q) = NodeAt(root, q)
                  /\ (OnTheWay(q, target) /\ q # target) =>
                        /\ NodeAt(root', q).path = NodeAt(root, q).path
                        /\ DOMAIN NodeAt(root, q).children
                              \subseteq DOMAIN NodeAt(root', q).children
                  /\ q = target => NodeAt(root', q).children = NodeAt(root, q).children]_vars

\* C32: a.b.rs, then a.rs, then b.rs: the node a got its file when it had the
\* child b and kept the child; neither was touched by the push of b.rs.
C32_Witness ==
    /\ Pushed
    /\ pushes = << << <<"a", "b", "rs">> >>, << <<"a", "rs">> >>, << <<"b", "rs">> >> >>
    /\ root = [path |-> NoneOpt,
               children |->
                  (<<"a">> :> [path |-> Some(<< <<"a", "rs">> >>),
                               children |-> (<<"b">> :> [path |-> Some(<< <<"a", "b", "rs">> >>),
                                                         children |-> <<>>])])
                  @@ (<<"b">> :> [path |-> Some(<< <<"b", "rs">> >>), children |-> <<>>])]


---------------------------------------------------------------------------
(* Further claims about patch_protos.                                      *)

\* the destination files a step has made or written
Touched ==
    {p \in DOMAIN dstFiles' : IF p \in DOMAIN dstFiles THEN dstFiles'[p] # dstFiles[p] ELSE TRUE}

\* the destination of the item i: the destination directory joined with the
\* item's path below the source directory
OwnOutput(i) == <<DstDir>> \o Tail(task[i].path)

\* C33: the items have different source files and different destination
\* paths; an error an item comes back with names its own source or its own
\* destination; and every step that makes or writes a destination file is
\* the step of one item, touches that item's destination only, and that path
\* is the destination of no other item.  So no file is written by two tasks,
\* however their steps interleave.
C33_OneTaskPerFile ==
    /\ [](\A i, j \in DOMAIN task :
              i # j => (task[i].path # task[j].path /\ OwnOutput(i) # OwnOutput(j)))
    /\ [](\A i \in DOMAIN task :
              task[i].res.kind = "Err" =>
                  task[i].res.at \in {task[i].path, OwnOutput(i), <<SrcDir>>})
    /\ [][Touched # {} =>
            \E i \in DOMAIN task :
                /\ task'[i] # task[i]
                /\ \A j \in DOMAIN task \ {i} : task'[j] = task[j] /\ OwnOutput(j) \notin Touched
                /\ Touched = {OwnOutput(i)}]_vars

\* C33: the items of a.proto and d/e/a.proto have both made their files and
\* neither has written yet.
C33_Witness ==
    /\ ppc = "par"
    /\ Len(task) = 2
    /\ task[1].at = "created" /\ task[2].at = "created"
    /\ Last(task[1].path) = Last(task[2].path)
    /\ OwnOutput(1) \in DOMAIN dstFiles /\ OwnOutput(2) \in DOMAIN dstFiles


---------------------------------------------------------------------------
(* modgen.rs as a whole: Tree::push called by itself, or modularize.       *)

InitModgen == InitTree \/ InitCompile

NextModgen ==
    \/ Push
    \/ Modularize
    \/ MkDir
    \/ Descend
    \/ MkFile
    \/ Declare
    \/ Attach

SpecModgen == InitModgen /\ [][NextModgen]_vars

\* a path that is empty or ends in `..`
NoFileName(path) == path = <<>> \/ Last(path) = <<"", "", "">>

\* C34: Tree::push returns FileName exactly for a path without a file name,
\* and leaves the tree as it was.  modularize hands Tree::push only paths
\* with the extension rs, which have a file name, so it never returns
\* FileName; it has folded all of them into the tree when the first call of
\* compile begins, and up to then, as after a failed traversal, the
\* destination is as it was before the call.
C34_FileNameRejection ==
    /\ [][pushes' # pushes =>
            /\ mres' = (IF NoFileName(Last(pushes')) THEN "FileName" ELSE "Ok")
            /\ NoFileName(Last(pushes')) => root' = root]_vars
    /\ [](cres.kind = "Err" => cres.err # "FileName")
    /\ []((cres.kind = "Err" /\ cres.err \in {"FileName", "ReadSourceDir"}) =>
              (cdirs = cenv.dirs0 /\ cfiles = cenv.files0))
    /\ []((cstack = <<[pos |-> <<>>, step |-> "mkdir", todo |-> {}, children |-> <<>>]>>) =>
              /\ cdirs = cenv.dirs0 /\ cfiles = cenv.files0
              /\ \A f \in cenv.files :
                    Extension(Last(f)) = Some("rs") =>
                        NodeAt(ctree, PositionOf(f)).path = Some(f))

\* C34: gen/.. was pushed after a.rs and rejected; the tree holds a.rs alone.
C34_Witness ==
    /\ mres = "FileName"
    /\ pushes = << << <<"a", "rs">> >>, << <<"gen">>, <<"", "", "">> >> >>
    /\ root = [path |-> NoneOpt,
               children |-> (<<"a">> :> [path |-> Some(<< <<"a", "rs">> >>), children |-> <<>>])]
    /\ cdirs = {} /\ cfiles = <<>>

\* every node below `node` carries a file reference or has a child
LeadsToFiles(node) ==
    \A pos \in PositionsFrom(node, <<>>) \ {<<>>} :
        NodeAt(node, pos).path.opt = "Some" \/ DOMAIN NodeAt(node, pos).children # {}

\* the aggregator file of the node at `pos` is complete and holds nothing
EmptyAggregator(pos) == CompiledAt(pos) /\ cfiles[ModFile(pos)] = <<>>

\* C37: in a tree built by pushes, and in the tree modularize builds, every
\* node other than the root carries a file reference or has a child.  A
\* complete aggregator file is empty only for a node without children that
\* is the root without a file reference, or whose source file is empty.
C37_NodesLeadToFiles ==
    /\ LeadsToFiles(root)
    /\ LeadsToFiles(ctree)
    /\ \A pos \in PositionsFrom(ctree, <<>>) :
          EmptyAggregator(pos) =>
              /\ DOMAIN NodeAt(ctree, pos).children = {}
              /\ IF NodeAt(ctree, pos).path.opt = "None" THEN pos = <<>>
                 ELSE Contents(NodeAt(ctree, pos).path.val) = <<>>

\* C37: z.a.rs was compiled: the node z has a child and no file reference,
\* its file holds the line of the child; the leaf z/a has the empty source
\* file and an empty aggregator file.
C37_Witness ==
    /\ cres.kind = "Ok"
    /\ cenv.files = { << SrcDir, <<"a", "rs">> >>, << SrcDir, <<"z", "a", "rs">> >> }
    /\ NodeAt(ctree, << <<"z">> >>).path.opt = "None"
    /\ EmptyAggregator(<< <<"z">>, <<"a">> >>)
    /\ cfiles[ModFile(<< <<"z">> >>)] = << <<"pub mod ", "a", ";\n">> >>
    /\ cfiles[ModFile(<< <<"a">> >>)] # <<>>

\* C38: when modularize returns ReadSourceFile for the source of a node, the
\* node's directory exists, its aggregator file was created by this run and
\* holds the line of each child and nothing else, every node below it has
\* its directory and its complete aggregator file, and no node above it has
\* an aggregator file of this run.
C38_ReadFailureKeepsWhatWasMade ==
    (cres.kind = "Err" /\ cres.err = "ReadSourceFile") =>
        LET pos == PositionOf(cres.at)
        IN  /\ NodeAt(ctree, pos).path = Some(cres.at)
            /\ ModDir(pos) \in cdirs
            /\ ModFile(pos) \in DOMAIN cfiles /\ ModFile(pos) \notin DOMAIN cenv.files0
            /\ \E lines \in DeclarationsOf(DOMAIN NodeAt(ctree, pos).children) :
                  cfiles[ModFile(pos)] = lines
            /\ \A d \in PositionsFrom(ctree, <<>>) :
                  (Len(d) > Len(pos) /\ SubSeq(d, 1, Len(pos)) = pos) =>
                      (ModDir(d) \in cdirs /\ CompiledAt(d))
            /\ \A n \in 0..(Len(pos) - 1) :
                  /\ ModDir(SubSeq(pos, 1, n)) \in cdirs
                  /\ ModFile(SubSeq(pos, 1, n)) \notin DOMAIN cfiles \ DOMAIN cenv.files0

\* C38: a.b.c.rs could not be read: its child d was compiled, a/b/c/mod.rs holds
\* the line of d alone, and a/b, a and the root have no aggregator file.
C38_Witness ==
    /\ cres = [kind |-> "Err", err |-> "ReadSourceFile",
               at |-> << SrcDir, <<"a", "b", "c", "rs">> >>]
    /\ cenv.files = TestFiles
    /\ cfiles[ModFile(<< <<"a">>, <<"b">>, <<"c">>, <<"d">> >>)] =
          << <<"struct ", "a", ".", "b", ".", "c", ".", "d", ".", "rs">> >>
    /\ cfiles[ModFile(<< <<"a">>, <<"b">>, <<"c">> >>)] = << <<"pub mod ", "d", ";\n">> >>
    /\ ModFile(<< <<"a">>, <<"b">> >>) \notin DOMAIN cfiles
    /\ ModFile(<< <<"a">> >>) \notin DOMAIN cfiles
    /\ ModFile(<<>>) \notin DOMAIN cfiles

\* C37 as stated: every node other than the root carries a file reference
\* or has a child, and a complete aggregator file is empty only at the root
\* of a tree built from no paths.
C37_OnlyEmptyTreeGivesEmptyFile ==
    /\ LeadsToFiles(root)
    /\ LeadsToFiles(ctree)
    /\ \A pos \in PositionsFrom(ctree, <<>>) :
          EmptyAggregator(pos) => (pos = <<>> /\ ctree = NewNode)


---------------------------------------------------------------------------
(* Further claims about patch_edition.                                     *)

\* the loop of patch_edition from the top of an iteration: the unread input,
\* `line`, `state`, `outcome` and what has been written
RECURSIVE PatchLoop(_, _, _, _, _)
PatchLoop(rest, ln, st, out, written) ==
    LET n == ReadUntilNewline(rest)
        buf == ln \o SubSeq(rest, 1, n)
        folded == TryFold(st, buf, 0)
        b == GetBounds(folded)
    IN  IF n = 0 THEN [result |-> "Ok", outcome |-> out, dst |-> written]
        ELSE IF folded = StInvalid
        THEN [result |-> "InvalidState", outcome |-> out, dst |-> written]
        ELSE CASE b.kind = "ToFrom" ->
                    PatchLoop(SubSeq(rest, n + 1, Len(rest)), <<>>, ResetState(folded), "Replaced",
                              written \o Slice(buf, 0, b.to) \o SyntaxDecl \o SliceFrom(buf, b.from))
               [] b.kind = "To" ->
                    PatchLoop(SubSeq(rest, n + 1, Len(rest)), SliceFrom(buf, b.to),
                              ResetState(folded), out, written \o Slice(buf, 0, b.to))
               [] OTHER ->
                    PatchLoop(SubSeq(rest, n + 1, Len(rest)), <<>>, ResetState(folded), out,
                              written \o buf)

\* patch_edition(input, dst) with readers and writers that do not fail
PatchEdition(input) == PatchLoop(input, <<>>, StNone, "Untouched", <<>>)

\* C35: when patch_edition has returned Ok with the output y (which is what
\* the function gives for the input as a whole), patch_edition on y returns
\* Ok(Untouched) and writes exactly y.
C35_PatchTwiceIsPatchOnce ==
    (pc = "done" /\ result = "Ok") =>
        /\ PatchEdition(src) = [result |-> "Ok", outcome |-> outcome, dst |-> dst]
        /\ PatchEdition(dst) = [result |-> "Ok", outcome |-> "Untouched", dst |-> dst]

\* C35: a declaration behind a comment was replaced, with text before and
\* after it on other lines.
C35_Witness ==
    /\ pc = "done" /\ result = "Ok"
    /\ outcome = "Replaced"
    /\ Len(dst) > Len(SyntaxDecl) + 3
    /\ dst[1] = "/"
    /\ \E i \in 1..Len(dst) : dst[i] = "\n" /\ i < Len(dst)
    /\ dst # src


\* C36: from a phase inside the quoted value every byte leads to a phase
\* inside the value again, with the same start offset, except a quote that
\* no backslash escapes, which closes the value.  No byte leads into a
\* comment, to the terminal state or to InvalidState; `/`, `*`, `=`, `;` and
\* the line feed are bytes of the value like any other.
C36_ValueBytesAreOrdinary ==
    pc \in {"write", "done"} =>
        LET sc == Scan(StNone, line, 0)
        IN  \A n \in 0..(Len(sc) - 2) :
                sc[n + 1].tag \in ValueTags =>
                    /\ sc[n + 2].tag \in ValueTags \cup {"EditionCloseQuote"}
                    /\ sc[n + 2].a = sc[n + 1].a
                    /\ sc[n + 2].tag = "EditionCloseQuote" <=>
                          (line[n + 1] = "\"" /\ sc[n + 1].tag # "EditionValueEscape")
                    /\ line[n + 1] \in {"/", "*", "=", ";", "\n"} => sc[n + 2].tag = "EditionValue"

\* C36: a value that holds `//`, `;`, `=` and a line feed has been matched to
\* its closing quote.
C36_Witness ==
    /\ pc = "write"
    /\ state.tag = "Complete" /\ state.opt = "Some"
    /\ line[state.b] = "\""
    /\ \E q \in OpenQuotes(Phases(line)) :
          /\ q + 7 = state.b
          /\ SubSeq(line, q + 2, q + 6) = <<"/", "/", ";", "=", "\n">>
          /\ \A k \in (q + 2)..(q + 7) : Phases(line)[k] \in ValueTags

===========================================================================
